---------------------------- MODULE Spec2Model ----------------------------
(***************************************************************************)
(* Model of WebinarVideoCleaner: the time codec (parse_time_to_ms /        *)
(* format_ms_to_srt), the cut list loader (load_cuts), the timestamp       *)
(* remapper (map_time), the subtitle reconstructor (apply_cuts_to_subs)    *)
(* and the subtitle codec (parse_srt / save_srt) of correct_srt.py, the    *)
(* alignment checks of check_srt_alignment.py, the sub-clip selection of   *)
(* process_video in cut_mp4.py and extract_json_from_text of               *)
(* main_video_editor.py.  Each part has its own specification; the         *)
(* variables of the other parts stay idle in it.                           *)
(*                                                                         *)
(* Texts are sequences of one-character strings, so that splitting,        *)
(* stripping, padding and integer conversion are computed, not assumed.    *)
(* A Python tuple (a, b) is the TLA+ tuple <<a, b>>; a dict is a record.   *)
(***************************************************************************)
EXTENDS Integers, Sequences, FiniteSets, TLC

VARIABLES
    pc,             \* position of the run: which operation has acted
    cuts,           \* correct_srt.py: the cut list, [(start_ms, end_ms), ...]
    t,              \* map_time: the original timestamp being mapped
    mapped,         \* map_time: its result (new_time, is_deleted)
    subs,           \* apply_cuts_to_subs: the input track
    new_subs,       \* apply_cuts_to_subs: the returned track
    data,           \* load_cuts: the payload read from the cuts file
    ms,             \* format_ms_to_srt: the millisecond count to format
    time_str,       \* the timestamp text formatted, or handed to parse_time_to_ms
    parsed,         \* parse_time_to_ms: its outcome (a value, or ValueError)
    srt_blocks,     \* the blocks an SRT file is made of, each a list of lines
    saved_subs,     \* save_srt: the track to write
    content,        \* the text of the SRT file, written or to be read
    parsed_subs,    \* parse_srt: the track it returns
    srt_exists,     \* check_alignment: os.path.exists(srt_path)
    align_subs,     \* check_alignment: subs, what parse_srt returned to it
    rec_i,          \* check_alignment: the records its loop has examined
    issues,         \* check_alignment: the issue list
    alignment_ok,   \* check_alignment: its return value
    intervals,      \* process_video: the interval items handed in
    initial_length, \* process_video: video.duration
    mode,           \* process_video: "remove" or "keep"
    final_clips,    \* process_video: the sub-clips requested, (start, end)
    embedded,       \* the text of the JSON object a model response holds
    response_text,  \* extract_json_from_text: the text handed in
    extracted,      \* extract_json_from_text: its return value
    no_cut_mode,    \* main: the mode chosen, TRUE for "no cut"
    srt_path,       \* main: the SRT the later steps read
    detected_language, \* main: the language handed to steps 2 and 7
    corrected_srt_path, \* main: the result of step 6, or a placeholder text
    files,          \* the paths os.path.exists answers True for
    calls,          \* main: the collaborator calls made so far, in order
    gemini_text,    \* convert_gemini_response_to_cut_format: the response read
    convert_returned, \* ... what the call ended with
    ranges_file,    \* ... the list dumped to the ranges file, None if none
    original_blocks, \* process_srt_correction: the blocks parsed from the SRT
    batch_no,       \* ... the batch its loop is at, from 1
    corrected_map,  \* ... id -> corrected text, as collected so far
    failed_batches, \* ... the batches that ended in an error
    written_blocks, \* ... the blocks handed to write_srt
    uploaded,       \* process_srt_file: the files uploaded to Gemini
    delete_requests, \* ... the names client.files.delete was asked to delete
    cleaner_returned, \* ... what the call returned
    raw_segments,   \* transcribe_to_srt: Whisper's segments [start, end, text]
    max_dur,        \* transcribe_to_srt: max_segment_duration, in seconds
    segments,       \* transcribe_to_srt: the segments process_segments returns
    srt_content     \* transcribe_to_srt: the text segments_to_srt returns

vars == <<pc, cuts, t, mapped, subs, new_subs, data, ms, time_str, parsed,
          srt_blocks, saved_subs, content, parsed_subs,
          srt_exists, align_subs, rec_i, issues, alignment_ok,
          intervals, initial_length, mode, final_clips,
          embedded, response_text, extracted,
          no_cut_mode, srt_path, detected_language, corrected_srt_path,
          files, calls, gemini_text, convert_returned, ranges_file,
          original_blocks, batch_no, corrected_map, failed_batches, written_blocks,
          uploaded, delete_requests, cleaner_returned,
          raw_segments, max_dur, segments, srt_content>>

mapVars   == <<t, mapped>>
applyVars == <<subs, new_subs>>
loadVars  == <<data>>
codecVars == <<ms, time_str, parsed>>
srtVars   == <<srt_blocks, saved_subs, content, parsed_subs>>
alignVars == <<srt_exists, align_subs, rec_i, issues, alignment_ok>>
videoVars == <<intervals, initial_length, mode, final_clips>>
jsonVars  == <<embedded, response_text, extracted>>
mainVars  == <<no_cut_mode, srt_path, detected_language, corrected_srt_path,
               files, calls>>

\* The parts modelled first, and the parts modelled after them.
earlyVars == <<mapVars, applyVars, loadVars, codecVars,
               srtVars, alignVars, videoVars, jsonVars>>
convVars  == <<gemini_text, convert_returned, ranges_file>>
corrVars  == <<original_blocks, batch_no, corrected_map, failed_batches, written_blocks>>
cleanVars == <<uploaded, delete_requests, cleaner_returned>>
segVars   == <<raw_segments, max_dur, segments, srt_content>>
lateVars  == <<mainVars, convVars, corrVars, cleanVars, segVars>>

(***************************************************************************)
(* Generic helpers.                                                        *)
(***************************************************************************)
Range(f) == {f[i] : i \in DOMAIN f}

SeqsUpTo(S, n) == UNION {[1..k -> S] : k \in 0..n}

\* F applied to the value of v: a local name bound to a value computed once.
With(v, F(_)) == CHOOSE result \in {F(x) : x \in {v}} : TRUE

RECURSIVE SumOver(_, _)
\* The sum of f[i] over the indices i of the finite set S.
SumOver(f, S) ==
    IF S = {} THEN 0
    ELSE LET i == CHOOSE x \in S : TRUE IN f[i] + SumOver(f, S \ {i})

(***************************************************************************)
(* Texts: Python str operations on sequences of one-character strings.     *)
(***************************************************************************)
DigitChars == <<"0", "1", "2", "3", "4", "5", "6", "7", "8", "9">>

IsDigit(c) == c \in Range(DigitChars)

DigitValue(c) == (CHOOSE d \in DOMAIN DigitChars : DigitChars[d] = c) - 1

IsSpace(c) == c \in {" ", "\t", "\n"}

Contains(s, c) == \E i \in DOMAIN s : s[i] = c

RECURSIVE LStrip(_)
LStrip(s) == IF s # <<>> /\ IsSpace(Head(s)) THEN LStrip(Tail(s)) ELSE s

RECURSIVE RStrip(_)
RStrip(s) ==
    IF s # <<>> /\ IsSpace(s[Len(s)]) THEN RStrip(SubSeq(s, 1, Len(s) - 1)) ELSE s

\* str.strip()
Strip(s) == RStrip(LStrip(s))

RECURSIVE Split(_, _)
\* str.split(sep) for a one-character separator: the list of the pieces.
Split(s, sep) ==
    IF ~Contains(s, sep) THEN <<s>>
    ELSE LET i == CHOOSE k \in DOMAIN s :
                      s[k] = sep /\ \A j \in 1..(k - 1) : s[j] # sep
         IN  <<SubSeq(s, 1, i - 1)>> \o Split(SubSeq(s, i + 1, Len(s)), sep)

RECURSIVE Join(_, _)
\* sep.join(pieces)
Join(pieces, sep) ==
    IF pieces = <<>> THEN <<>>
    ELSE IF Len(pieces) = 1 THEN pieces[1]
    ELSE pieces[1] \o <<sep>> \o Join(Tail(pieces), sep)

RECURSIVE DigitsValue(_)
DigitsValue(ds) ==
    IF ds = <<>> THEN 0
    ELSE DigitsValue(SubSeq(ds, 1, Len(ds) - 1)) * 10 + DigitValue(ds[Len(ds)])

\* The digits of int(s), sign taken off: s stripped, without a leading + or -.
IntBody(s) ==
    LET b == Strip(s)
    IN  IF b # <<>> /\ b[1] \in {"+", "-"} THEN Tail(b) ELSE b

\* int(s) does not raise ValueError: an optional sign and one digit or more.
IsInt(s) == IntBody(s) # <<>> /\ \A i \in DOMAIN IntBody(s) : IsDigit(IntBody(s)[i])

\* int(s), for a text with IsInt(s).
IntOf(s) ==
    LET b == Strip(s)
    IN  IF b[1] = "-" THEN 0 - DigitsValue(IntBody(s)) ELSE DigitsValue(IntBody(s))

RECURSIVE Digits(_)
\* str(n) for n >= 0
Digits(n) ==
    IF n < 10 THEN <<DigitChars[n + 1]>>
    ELSE Digits(n \div 10) \o <<DigitChars[(n % 10) + 1]>>

RECURSIVE ZeroPad(_, _)
\* f"{n:0<width>d}" for n >= 0: zeros on the left up to the width, never cut.
ZeroPad(ds, width) == IF Len(ds) >= width THEN ds ELSE ZeroPad(<<"0">> \o ds, width)

\* The outcome of a call: a returned value, or a raised ValueError.
Ok(v) == [err |-> FALSE, value |-> v]
ValueError == [err |-> TRUE, value |-> 0]

\* A JSON value as json.loads builds it: a dict holds its members in items
\* as [key, val] records, a list its elements, a str its characters.
JValue(kind, num, str, items) ==
    [kind |-> kind, num |-> num, str |-> str, items |-> items]

\* What a function returning a JSON value or None returned.
None == [none |-> TRUE, value |-> JValue("null", 0, <<>>, <<>>)]
Some(v) == [none |-> FALSE, value |-> v]

(***************************************************************************)
(* common_utils.py (and its copy in correct_srt.py): the time codec.       *)
(***************************************************************************)
\* The unpacking "hms, ms = time_str.split(sep)": a pair, or ValueError.
SplitMs(s) ==
    IF Contains(s, ",") THEN Split(s, ",")
    ELSE IF Contains(s, ".") THEN Split(s, ".")
    ELSE <<s, <<"0", "0", "0">>>>

parse_time_to_ms(text) ==
    LET s  == Strip(text)
        hm == SplitMs(s)
    IN  IF Len(hm) # 2 THEN ValueError
        ELSE LET hms   == hm[1]
                 msec  == hm[2]
                 parts == Split(hms, ":")
             IN  IF Len(parts) = 3 THEN
                     IF \E i \in 1..3 : ~IsInt(parts[i]) THEN ValueError
                     ELSE IF ~IsInt(msec) THEN ValueError
                     ELSE Ok((IntOf(parts[1]) * 3600 + IntOf(parts[2]) * 60
                                 + IntOf(parts[3])) * 1000 + IntOf(msec))
                 ELSE IF Len(parts) = 2 THEN
                     IF \E i \in 1..2 : ~IsInt(parts[i]) THEN ValueError
                     ELSE IF ~IsInt(msec) THEN ValueError
                     ELSE Ok((0 * 3600 + IntOf(parts[1]) * 60
                                 + IntOf(parts[2])) * 1000 + IntOf(msec))
                 ELSE Ok(0)

\* format_ms_to_srt with the hours field cut to its last two digits.
format_ms_to_srt_two_digit_hours(n) ==
    LET seconds      == n \div 1000
        milliseconds == n % 1000
        minutes      == seconds \div 60
        hours        == minutes \div 60
    IN  ZeroPad(Digits(hours % 100), 2) \o <<":">> \o ZeroPad(Digits(minutes % 60), 2)
           \o <<":">> \o ZeroPad(Digits(seconds % 60), 2)
           \o <<",">> \o ZeroPad(Digits(milliseconds), 3)

\* format_ms_to_srt with the hours field wrapped at one day.
format_ms_to_srt_wrap_day(n) ==
    LET seconds      == n \div 1000
        milliseconds == n % 1000
        minutes      == seconds \div 60
        hours        == minutes \div 60
    IN  ZeroPad(Digits(hours % 24), 2) \o <<":">> \o ZeroPad(Digits(minutes % 60), 2)
           \o <<":">> \o ZeroPad(Digits(seconds % 60), 2)
           \o <<",">> \o ZeroPad(Digits(milliseconds), 3)

format_ms_to_srt(n) ==
    LET seconds      == n \div 1000
        milliseconds == n % 1000
        minutes      == seconds \div 60
        hours        == minutes \div 60
    IN  ZeroPad(Digits(hours), 2) \o <<":">> \o ZeroPad(Digits(minutes % 60), 2)
           \o <<":">> \o ZeroPad(Digits(seconds % 60), 2)
           \o <<",">> \o ZeroPad(Digits(milliseconds), 3)

(***************************************************************************)
(* correct_srt.py: map_time.                                               *)
(***************************************************************************)
RECURSIVE map_scan(_, _, _, _)
\* The for loop of map_time from cut number i on, with the offset so far.
map_scan(tm, cs, i, offset) ==
    IF i > Len(cs) THEN <<tm - offset, FALSE>>
    ELSE LET start == cs[i][1]
             end   == cs[i][2]
         IN  IF tm < start THEN <<tm - offset, FALSE>>
             ELSE IF tm < end THEN <<start - offset, TRUE>>
             ELSE map_scan(tm, cs, i + 1, offset + (end - start))

RECURSIVE map_scan_no_offset(_, _, _, _)
\* map_time with the clamp inside a cut forgetting the accumulated offset.
map_scan_no_offset(tm, cs, i, offset) ==
    IF i > Len(cs) THEN <<tm - offset, FALSE>>
    ELSE LET start == cs[i][1]
             end   == cs[i][2]
         IN  IF tm < start THEN <<tm - offset, FALSE>>
             ELSE IF tm < end THEN <<start, TRUE>>
             ELSE map_scan_no_offset(tm, cs, i + 1, offset + (end - start))

map_time_no_offset(tm, cs) == map_scan_no_offset(tm, cs, 1, 0)

RECURSIVE map_scan_closed(_, _, _, _)
\* map_time treating a cut as closed on the right (t <= end is inside).
map_scan_closed(tm, cs, i, offset) ==
    IF i > Len(cs) THEN <<tm - offset, FALSE>>
    ELSE LET start == cs[i][1]
             end   == cs[i][2]
         IN  IF tm < start THEN <<tm - offset, FALSE>>
             ELSE IF tm <= end THEN <<start - offset, TRUE>>
             ELSE map_scan_closed(tm, cs, i + 1, offset + (end - start))

map_time_closed(tm, cs) == map_scan_closed(tm, cs, 1, 0)

RECURSIVE map_scan_merged(_, _, _, _, _)
\* map_time counting only the part of a cut that lies past the cuts before it.
map_scan_merged(tm, cs, i, offset, covered) ==
    IF i > Len(cs) THEN <<tm - offset, FALSE>>
    ELSE LET start == IF cs[i][1] > covered THEN cs[i][1] ELSE covered
             end   == IF cs[i][2] > covered THEN cs[i][2] ELSE covered
         IN  IF tm < start THEN <<tm - offset, FALSE>>
             ELSE IF tm < end THEN <<start - offset, TRUE>>
             ELSE map_scan_merged(tm, cs, i + 1, offset + (end - start), end)

map_time_merged(tm, cs) == map_scan_merged(tm, cs, 1, 0, 0)

map_time(tm, cs) == map_scan(tm, cs, 1, 0)

(***************************************************************************)
(* Inputs of the remapper.                                                 *)
(***************************************************************************)
MaxTime == 5
MaxCuts == 2

Times == 0..MaxTime

\* Every pair load_cuts can append: it filters nothing.
CutRanges == Times \X Times

SortedByStart(cs) == \A i, j \in DOMAIN cs : i < j => cs[i][1] <= cs[j][1]

\* What load_cuts returns: any ranges, sorted ascending by start.
SortedCutLists == {cs \in SeqsUpTo(CutRanges, MaxCuts) : SortedByStart(cs)}

\* The half-open ranges [a[1], a[2]) and [b[1], b[2]) share an instant.
Overlap(a, b) == a[1] < a[2] /\ b[1] < b[2] /\ a[1] < b[2] /\ b[1] < a[2]

\* Sorted ascending by start with pairwise disjoint ranges.
SortedDisjoint(cs) ==
    /\ SortedByStart(cs)
    /\ \A i, j \in DOMAIN cs : i # j => ~Overlap(cs[i], cs[j])

\* The canonical cut list of the data model: every range has start < end too.
Canonical(cs) ==
    /\ SortedDisjoint(cs)
    /\ \A i \in DOMAIN cs : cs[i][1] < cs[i][2]

(***************************************************************************)
(* The remapper run: a loaded cut list, then map_time on one timestamp.    *)
(***************************************************************************)
ApplyIdle == subs = <<>> /\ new_subs = <<>>
LoadIdle  == data = <<>>
CodecIdle == ms = 0 /\ time_str = <<>> /\ parsed = Ok(0)
SrtIdle   ==
    /\ srt_blocks = <<>> /\ saved_subs = <<>>
    /\ content = <<>> /\ parsed_subs = <<>>
AlignIdle ==
    /\ srt_exists = FALSE /\ align_subs = <<>> /\ rec_i = 0
    /\ issues = <<>> /\ alignment_ok = FALSE
VideoIdle ==
    /\ intervals = <<>> /\ initial_length = 0
    /\ mode = "remove" /\ final_clips = <<>>
JsonIdle  == embedded = <<>> /\ response_text = <<>> /\ extracted = None
MainIdle  ==
    /\ no_cut_mode = FALSE /\ srt_path = "" /\ detected_language = ""
    /\ corrected_srt_path = "" /\ files = {} /\ calls = <<>>
ConvIdle  == gemini_text = <<>> /\ convert_returned = "" /\ ranges_file = <<>>
CorrIdle  == original_blocks = <<>> /\ batch_no = 0 /\ corrected_map = <<>> /\ failed_batches = {} /\ written_blocks = <<>>
CleanIdle == uploaded = <<>> /\ delete_requests = <<>> /\ cleaner_returned = ""
SegIdle   == raw_segments = <<>> /\ max_dur = 0 /\ segments = <<>> /\ srt_content = <<>>
LateIdle  == MainIdle /\ ConvIdle /\ CorrIdle /\ CleanIdle /\ SegIdle

InitMap ==
    /\ pc = "loaded"
    /\ cuts \in SortedCutLists
    /\ t = 0
    /\ mapped = <<0, FALSE>>
    /\ ApplyIdle /\ LoadIdle /\ CodecIdle
    /\ SrtIdle /\ AlignIdle /\ VideoIdle /\ JsonIdle
    /\ LateIdle

MapTime ==
    /\ pc = "loaded"
    /\ \E tm \in Times :
        /\ t' = tm
        /\ mapped' = map_time(tm, cuts)
    /\ pc' = "mapped"
    /\ UNCHANGED <<cuts, applyVars, loadVars, codecVars,
                 srtVars, alignVars, videoVars, jsonVars, lateVars>>

NextMap == MapTime

SpecMap == InitMap /\ [][NextMap]_vars

(***************************************************************************)
(* Claims about map_time, checked under SpecMap.                           *)
(***************************************************************************)
CutLen(cs) == [i \in DOMAIN cs |-> cs[i][2] - cs[i][1]]

\* The cuts that lie before the instant x: those ending at or before it.
CutsBefore(cs, x) == {i \in DOMAIN cs : cs[i][2] <= x}

CutsHolding(cs, x) == {i \in DOMAIN cs : cs[i][1] <= x /\ x < cs[i][2]}

\* C1: on a sorted list of pairwise disjoint cuts (each start < end), a t
\* inside a cut (s, e) maps to (s - P, true), P the total length of the cuts
\* before s; any other t maps to (t - Q, false), Q the total length of the
\* cuts ending at or before t; a t before every cut maps to (t, false).
C1_MapTimeValue ==
    (pc = "mapped" /\ Canonical(cuts)) =>
        /\ \A i \in CutsHolding(cuts, t) :
              mapped = <<cuts[i][1]
                           - SumOver(CutLen(cuts), CutsBefore(cuts, cuts[i][1])),
                         TRUE>>
        /\ CutsHolding(cuts, t) = {} =>
              mapped = <<t - SumOver(CutLen(cuts), CutsBefore(cuts, t)), FALSE>>
        /\ (\A i \in DOMAIN cuts : t < cuts[i][1]) => mapped = <<t, FALSE>>

\* A timestamp inside the second of two disjoint cuts: P > 0.
C1_Witness ==
    /\ pc = "mapped" /\ Canonical(cuts) /\ Len(cuts) = 2
    /\ 2 \in CutsHolding(cuts, t)
    /\ mapped = <<cuts[2][1] - (cuts[1][2] - cuts[1][1]), TRUE>>
    /\ mapped[1] < cuts[2][1]

\* C2: on a sorted list of pairwise disjoint cuts the new time is monotonic
\* in the original time, and it is never negative.
C2_Monotonic ==
    (pc = "mapped" /\ SortedDisjoint(cuts)) =>
        /\ mapped[1] >= 0
        /\ \A u \in Times :
              /\ u <= t => map_time(u, cuts)[1] <= mapped[1]
              /\ t <= u => mapped[1] <= map_time(u, cuts)[1]

\* A timestamp past two cuts, shifted back, with an earlier timestamp
\* (inside the second cut) that maps strictly below it.
C2_Witness ==
    /\ pc = "mapped" /\ Canonical(cuts) /\ Len(cuts) = 2
    /\ t > cuts[2][2]
    /\ mapped[1] < t
    /\ \E u \in Times : u < t /\ 2 \in CutsHolding(cuts, u)
                        /\ map_time(u, cuts)[1] < mapped[1]

\* Two ranges of the list share a point.
Overlapping(cs) == \E i, j \in DOMAIN cs : i # j /\ Overlap(cs[i], cs[j])

\* The length of the union of the ranges, up to the instant x.
UnionLenBefore(cs, x) ==
    Cardinality({y \in 0..(x - 1) :
                    \E i \in DOMAIN cs : cs[i][1] <= y /\ y < cs[i][2]})

\* C8: overlapping cuts are mapped wrongly, silently. For every list sorted
\* by start, of ranges with start < end, two of which overlap, and every t at
\* or past every end, map_time returns (t - the sum of the lengths, false),
\* which is not t minus the length of the union of the ranges before t.
C8_OverlapWrongOffset ==
    ( /\ pc = "mapped"
      /\ \A i \in DOMAIN cuts : cuts[i][1] < cuts[i][2]
      /\ Overlapping(cuts)
      /\ \A i \in DOMAIN cuts : cuts[i][2] <= t ) =>
        /\ mapped = <<t - SumOver(CutLen(cuts), DOMAIN cuts), FALSE>>
        /\ mapped[1] # t - UnionLenBefore(cuts, t)

\* Two overlapping cuts and a timestamp past both, mapped too far back.
C8_Witness ==
    /\ pc = "mapped" /\ Len(cuts) = 2
    /\ cuts[1][1] < cuts[2][1] /\ cuts[2][1] < cuts[1][2] /\ cuts[1][2] < cuts[2][2]
    /\ t >= cuts[2][2]
    /\ mapped[2] = FALSE
    /\ mapped[1] < t - UnionLenBefore(cuts, t)

(***************************************************************************)
(* correct_srt.py: apply_cuts_to_subs.                                     *)
(***************************************************************************)
\* The minimum duration a remapped subtitle must keep, in ms.
MIN_DURATION_MS == 100

Sub(index, start, end, text) ==
    [index |-> index, start |-> start, end |-> end, text |-> text]

RECURSIVE apply_loop(_, _, _, _, _)
\* The for loop of apply_cuts_to_subs from record number i on.
apply_loop(ss, cs, i, out, new_index) ==
    IF i > Len(ss) THEN out
    ELSE LET sub       == ss[i]
             new_start == map_time(sub.start, cs)[1]
             new_end   == map_time(sub.end, cs)[1]
         IN  IF new_end - new_start < MIN_DURATION_MS
             THEN apply_loop(ss, cs, i + 1, out, new_index)
             ELSE apply_loop(ss, cs, i + 1,
                             Append(out, Sub(new_index, new_start, new_end, sub.text)),
                             new_index + 1)

RECURSIVE apply_loop_strict(_, _, _, _, _)
\* apply_cuts_to_subs dropping a record of exactly the minimum duration too.
apply_loop_strict(ss, cs, i, out, new_index) ==
    IF i > Len(ss) THEN out
    ELSE LET sub       == ss[i]
             new_start == map_time(sub.start, cs)[1]
             new_end   == map_time(sub.end, cs)[1]
         IN  IF new_end - new_start <= MIN_DURATION_MS
             THEN apply_loop_strict(ss, cs, i + 1, out, new_index)
             ELSE apply_loop_strict(ss, cs, i + 1,
                             Append(out, Sub(new_index, new_start, new_end, sub.text)),
                             new_index + 1)

apply_cuts_to_subs_strict(ss, cs) == apply_loop_strict(ss, cs, 1, <<>>, 1)

RECURSIVE apply_loop_keep_index(_, _, _, _, _)
\* apply_cuts_to_subs copying the original index instead of renumbering.
apply_loop_keep_index(ss, cs, i, out, new_index) ==
    IF i > Len(ss) THEN out
    ELSE LET sub       == ss[i]
             new_start == map_time(sub.start, cs)[1]
             new_end   == map_time(sub.end, cs)[1]
         IN  IF new_end - new_start < MIN_DURATION_MS
             THEN apply_loop_keep_index(ss, cs, i + 1, out, new_index)
             ELSE apply_loop_keep_index(ss, cs, i + 1,
                             Append(out, Sub(sub.index, new_start, new_end, sub.text)),
                             new_index + 1)

apply_cuts_to_subs_keep_index(ss, cs) == apply_loop_keep_index(ss, cs, 1, <<>>, 1)

RECURSIVE apply_loop_no_drop(_, _, _, _, _)
\* apply_cuts_to_subs dropping only the records of negative duration.
apply_loop_no_drop(ss, cs, i, out, new_index) ==
    IF i > Len(ss) THEN out
    ELSE LET sub       == ss[i]
             new_start == map_time(sub.start, cs)[1]
             new_end   == map_time(sub.end, cs)[1]
         IN  IF new_end - new_start < 0
             THEN apply_loop_no_drop(ss, cs, i + 1, out, new_index)
             ELSE apply_loop_no_drop(ss, cs, i + 1,
                             Append(out, Sub(new_index, new_start, new_end, sub.text)),
                             new_index + 1)

apply_cuts_to_subs_no_drop(ss, cs) == apply_loop_no_drop(ss, cs, 1, <<>>, 1)

apply_cuts_to_subs(ss, cs) == apply_loop(ss, cs, 1, <<>>, 1)

(***************************************************************************)
(* check_srt_alignment.py: the violations check_alignment collects.        *)
(***************************************************************************)
Issue(kind, pos, overlap_ms) == [kind |-> kind, pos |-> pos, overlap_ms |-> overlap_ms]

\* The issues appended in iteration i of the loop, in the order of the checks.
issues_at(ss, i) ==
    LET current == ss[i]
        dur == IF current.start >= current.end
               THEN <<Issue("duration", i, 0)>> ELSE <<>>
        ovl == IF i > 1 /\ current.start < ss[i - 1].end
               THEN <<Issue("overlap", i, ss[i - 1].end - current.start)>> ELSE <<>>
        uns == IF i > 1 /\ current.start < ss[i - 1].start
               THEN <<Issue("unsorted", i, 0)>> ELSE <<>>
    IN  dur \o ovl \o uns

RECURSIVE issues_from(_, _)
issues_from(ss, i) ==
    IF i > Len(ss) THEN <<>> ELSE issues_at(ss, i) \o issues_from(ss, i + 1)

alignment_issues(ss) == issues_from(ss, 1)

(***************************************************************************)
(* The reconstructor run: a parsed track and a loaded cut list, then       *)
(* apply_cuts_to_subs.                                                     *)
(***************************************************************************)
MaxSubs == 2

\* Timestamps (ms) on both sides of the minimum duration: they differ by
\* 50, 100, 150, 200 and 250.
SubTimes == {0, 50, 150, 250}

\* The texts of the records of a track, by position.
SubTexts == <<"keep1", "delete", "keep2", "more">>

\* The index of the first record of a track; the others count up from it.
FirstIndexes == {1, 7}

\* Tracks as parse_srt returns them: any start and end, any integer indices.
TrackOf(times, first) ==
    [i \in 1..Len(times) |->
        Sub(first + i - 1, times[i][1], times[i][2], SubTexts[i])]

Tracks ==
    {TrackOf(times, first) :
        times \in SeqsUpTo(SubTimes \X SubTimes, MaxSubs), first \in FirstIndexes}

\* Cut lists of valid ranges (start < end), sorted by start; they may overlap.
ValidCutLists ==
    {cs \in SeqsUpTo({c \in SubTimes \X SubTimes : c[1] < c[2]}, MaxCuts) :
        SortedByStart(cs)}

MapIdle == t = 0 /\ mapped = <<0, FALSE>>

InitApply ==
    /\ pc = "parsed"
    /\ cuts \in ValidCutLists
    /\ subs \in Tracks
    /\ new_subs = <<>>
    /\ MapIdle /\ LoadIdle /\ CodecIdle
    /\ SrtIdle /\ AlignIdle /\ VideoIdle /\ JsonIdle
    /\ LateIdle

ApplyCuts ==
    /\ pc = "parsed"
    /\ new_subs' = apply_cuts_to_subs(subs, cuts)
    /\ pc' = "applied"
    /\ UNCHANGED <<cuts, subs, mapVars, loadVars, codecVars,
                 srtVars, alignVars, videoVars, jsonVars, lateVars>>

NextApply == ApplyCuts

SpecApply == InitApply /\ [][NextApply]_vars

(***************************************************************************)
(* Claims about apply_cuts_to_subs, checked under SpecApply.               *)
(***************************************************************************)
NewStart(i) == map_time(subs[i].start, cuts)[1]
NewEnd(i)   == map_time(subs[i].end, cuts)[1]

\* The input records that keep at least 100 ms between their mapped times.
Kept == {i \in DOMAIN subs : NewEnd(i) - NewStart(i) >= 100}

\* The j-th smallest element of the set S of positions.
Nth(S, j) == CHOOSE x \in S : Cardinality({y \in S : y <= x}) = j

\* The input positions whose text (texts differ by position) is returned.
Returned == {i \in DOMAIN subs : \E j \in DOMAIN new_subs : new_subs[j].text = subs[i].text}

\* Start and end of record i both lie inside one cut.
InsideOneCut(i) ==
    \E k \in DOMAIN cuts :
        /\ cuts[k][1] <= subs[i].start /\ subs[i].start < cuts[k][2]
        /\ cuts[k][1] <= subs[i].end /\ subs[i].end < cuts[k][2]

\* The first sentence and the last of C3: a record is kept if and only if
\* its mapped end minus its mapped start is at least 100 ms, and a kept
\* record carries exactly the two mapped times.
KeptIffLongEnough ==
    /\ Returned = Kept
    /\ Len(new_subs) = Cardinality(Kept)
    /\ \A j \in DOMAIN new_subs :
          /\ new_subs[j].start = NewStart(Nth(Kept, j))
          /\ new_subs[j].end = NewEnd(Nth(Kept, j))

\* C3 as stated, for whatever cut list apply_cuts_to_subs is given: a record
\* is kept if and only if its mapped duration is at least 100 ms, a kept
\* record carries the two mapped times, and a record whose start and end lie
\* inside one cut collapses to duration 0 and is dropped.
C3_Original ==
    pc = "applied" =>
        /\ KeptIffLongEnough
        /\ \A i \in DOMAIN subs :
              InsideOneCut(i) =>
                  /\ NewEnd(i) - NewStart(i) = 0
                  /\ i \notin Returned

\* C3 (amended): a record is kept if and only if its mapped duration is at
\* least 100 ms and a kept record carries the two mapped times, on every cut
\* list; a record whose start and end lie inside one cut of a list sorted by
\* start with pairwise disjoint ranges collapses to duration 0 and is
\* dropped.
C3_KeepIffLongEnough ==
    pc = "applied" =>
        /\ KeptIffLongEnough
        /\ \A i \in DOMAIN subs :
              (InsideOneCut(i) /\ SortedDisjoint(cuts)) =>
                  /\ NewEnd(i) - NewStart(i) = 0
                  /\ i \notin Returned

\* One record inside a cut (dropped) and one that is clipped to exactly
\* 100 ms (kept).
C3_Witness ==
    /\ pc = "applied" /\ Len(subs) = 2 /\ Len(new_subs) = 1
    /\ InsideOneCut(1)
    /\ new_subs[1].end - new_subs[1].start = 100
    /\ subs[2].end - subs[2].start > 100
    /\ new_subs[1].text = subs[2].text

\* C4: the returned records come in the order of the input records they stem
\* from, are numbered 1..k whatever the original indices were, and carry the
\* text of their original record.
C4_OrderIndexText ==
    pc = "applied" =>
        /\ Len(new_subs) = Cardinality(Kept)
        /\ \A j \in DOMAIN new_subs :
              /\ new_subs[j].index = j
              /\ new_subs[j].text = subs[Nth(Kept, j)].text
        /\ \A j, k \in DOMAIN new_subs :
              j < k => \E a, b \in DOMAIN subs :
                          /\ a < b
                          /\ subs[a].text = new_subs[j].text
                          /\ subs[b].text = new_subs[k].text

\* The first record is dropped and the second, whose original index is 8,
\* is returned as number 1.
C4_Witness ==
    /\ pc = "applied" /\ Len(subs) = 2 /\ Len(new_subs) = 1
    /\ subs[2].index = 8
    /\ new_subs[1].index = 1
    /\ new_subs[1].text = subs[2].text

\* The well-formed track of the data model.
WellFormed(ss) ==
    /\ \A i \in DOMAIN ss : ss[i].start < ss[i].end
    /\ \A i \in DOMAIN ss :
          i > 1 => ss[i].start >= ss[i - 1].end /\ ss[i].start >= ss[i - 1].start

\* C5: on a well-formed track and a sorted list of pairwise disjoint cuts,
\* the returned track is well formed: the alignment check finds no issue.
C5_AlignmentPreserved ==
    (pc = "applied" /\ WellFormed(subs) /\ Canonical(cuts)) =>
        /\ alignment_issues(new_subs) = <<>>
        /\ WellFormed(new_subs)

\* Two touching records, both kept, the first one clipped by a cut.
C5_Witness ==
    /\ pc = "applied" /\ WellFormed(subs) /\ Canonical(cuts)
    /\ Len(cuts) >= 1 /\ Len(subs) = 2 /\ Len(new_subs) = 2
    /\ new_subs[1].end - new_subs[1].start < subs[1].end - subs[1].start
    /\ new_subs[2].start = new_subs[1].end
    /\ new_subs[2].start < subs[2].start

(***************************************************************************)
(* The time codec run: a millisecond count is formatted and the text       *)
(* parsed back, or a text from outside is parsed.                          *)
(***************************************************************************)
\* Python integers are unbounded; the samples stay below 2^31 ms (596 hours).
HourSamples   == {0, 1, 9, 10, 23, 24, 99, 100, 101, 500}
MinuteSamples == {0, 9, 10, 59}
SecondSamples == {0, 9, 10, 59}
MilliSamples  == {0, 1, 9, 10, 99, 100, 999}

\* Non-negative millisecond counts, below and above one hundred hours.
MsSamples ==
    {((h * 60 + m) * 60 + sec) * 1000 + k :
        h \in HourSamples, m \in MinuteSamples,
        sec \in SecondSamples, k \in MilliSamples}

MaxFields == 4

\* One colon-separated field: empty, numeric, numeric with a space, or not.
FieldTexts == {<<>>, <<"1">>, <<"0", "5">>, <<" ", "2">>, <<"x">>}

\* What follows the fields: nothing, or text led by a ',' or '.' separator.
MsSuffixes ==
    {<<>>, <<",", "5">>, <<".", "5">>, <<",", "0", "0", "7">>,
     <<",", "5", ",", "6">>, <<".", "5", ".", "6">>, <<",", "5", ".", "6">>,
     <<",", "x">>, <<",">>}

Pads == {<<>>, <<" ">>}

\* Timestamp texts from outside: a cuts file or an SRT file.
RawTexts ==
    {pad \o Join(fs, ":") \o suf \o pad :
        fs \in SeqsUpTo(FieldTexts, MaxFields) \ {<<>>},
        suf \in MsSuffixes, pad \in Pads}

InitCodec ==
    /\ \/ pc = "ms" /\ ms \in MsSamples /\ time_str = <<>>
       \/ pc = "text" /\ ms = 0 /\ time_str \in RawTexts
    /\ parsed = Ok(0)
    /\ cuts = <<>>
    /\ MapIdle /\ ApplyIdle /\ LoadIdle
    /\ SrtIdle /\ AlignIdle /\ VideoIdle /\ JsonIdle
    /\ LateIdle

\* save_srt: time_str = format_ms_to_srt(ms)
FormatMs ==
    /\ pc = "ms"
    /\ time_str' = format_ms_to_srt(ms)
    /\ pc' = "formatted"
    /\ UNCHANGED <<ms, parsed, cuts, mapVars, applyVars, loadVars,
                 srtVars, alignVars, videoVars, jsonVars, lateVars>>

\* parse_srt: parse_time_to_ms on a text written by format_ms_to_srt
ParseFormatted ==
    /\ pc = "formatted"
    /\ parsed' = parse_time_to_ms(time_str)
    /\ pc' = "roundtrip"
    /\ UNCHANGED <<ms, time_str, cuts, mapVars, applyVars, loadVars,
                 srtVars, alignVars, videoVars, jsonVars, lateVars>>

\* load_cuts, parse_srt: parse_time_to_ms on a text from outside
ParseText ==
    /\ pc = "text"
    /\ parsed' = parse_time_to_ms(time_str)
    /\ pc' = "parsed"
    /\ UNCHANGED <<ms, time_str, cuts, mapVars, applyVars, loadVars,
                 srtVars, alignVars, videoVars, jsonVars, lateVars>>

NextCodec == FormatMs \/ ParseFormatted \/ ParseText

SpecCodec == InitCodec /\ [][NextCodec]_vars

(***************************************************************************)
(* Claims about the time codec, checked under SpecCodec.                   *)
(***************************************************************************)
\* C9: parse_time_to_ms(format_ms_to_srt(t)) = t for every t >= 0, also
\* where the hours field is wider than two digits.
C9_RoundTrip ==
    pc = "roundtrip" => parsed = Ok(ms)

\* A count of a hundred hours or more, written with three hour digits and
\* read back.
C9_Witness ==
    /\ pc = "roundtrip"
    /\ ms >= 100 * 3600000
    /\ Len(time_str) = 13
    /\ parsed = Ok(ms)

\* The text before the first millisecond separator (',' if there is one,
\* else '.'), and the text after it ("000" without a separator).
HmsPart(s) ==
    IF Contains(s, ",") THEN Split(s, ",")[1]
    ELSE IF Contains(s, ".") THEN Split(s, ".")[1]
    ELSE s

MsPart(s) ==
    IF Contains(s, ",") THEN SubSeq(s, Len(Split(s, ",")[1]) + 2, Len(s))
    ELSE IF Contains(s, ".") THEN SubSeq(s, Len(Split(s, ".")[1]) + 2, Len(s))
    ELSE <<"0", "0", "0">>

\* C10: parse_time_to_ms returns 0, raising nothing, for every text whose
\* colon-separated field count is neither 2 nor 3, whatever else it holds;
\* with 3 numeric fields it returns (h*3600 + m*60 + s)*1000 + ms, with 2
\* numeric fields (m*60 + s)*1000 + ms.
C10_LenientParse ==
    pc = "parsed" =>
        LET s      == Strip(time_str)
            fields == Split(HmsPart(s), ":")
            msec   == MsPart(s)
            nums   == (\A i \in DOMAIN fields : IsInt(fields[i])) /\ IsInt(msec)
        IN  /\ Len(fields) \notin {2, 3} => parsed = Ok(0)
            /\ (Len(fields) = 3 /\ nums) =>
                  parsed = Ok((IntOf(fields[1]) * 3600 + IntOf(fields[2]) * 60
                                  + IntOf(fields[3])) * 1000 + IntOf(msec))
            /\ (Len(fields) = 2 /\ nums) =>
                  parsed = Ok((IntOf(fields[1]) * 60 + IntOf(fields[2])) * 1000
                                  + IntOf(msec))

\* The four numbers a text HH:MM:SS,mmm shows: its digit groups read in
\* base ten, <<hours, minutes, seconds, millis>>.
ShownFields(s) ==
    LET hm    == Split(s, ",")
        parts == Split(hm[1], ":")
    IN  <<DigitsValue(parts[1]), DigitsValue(parts[2]), DigitsValue(parts[3]),
          DigitsValue(hm[2])>>

\* The text is digit groups only, laid out as H..H:MM:SS,mmm.
ShapedAsSrtTime(s) ==
    LET hm == Split(s, ",")
    IN  /\ Len(hm) = 2
        /\ Len(Split(hm[1], ":")) = 3
        /\ \A i \in 1..3 :
              LET f == Split(hm[1], ":")[i]
              IN  /\ \A j \in DOMAIN f : IsDigit(f[j])
                  /\ IF i = 1 THEN Len(f) >= 2 ELSE Len(f) = 2
        /\ Len(hm[2]) = 3 /\ \A j \in 1..3 : IsDigit(hm[2][j])

\* C11: for every non-negative ms, format_ms_to_srt(ms) shows hours, minutes,
\* seconds and millis with minutes < 60, seconds < 60, millis < 1000 and
\* hours*3600000 + minutes*60000 + seconds*1000 + millis = ms; the hours are
\* not reduced modulo 24.
C11_FieldsAddUp ==
    pc \in {"formatted", "roundtrip"} =>
        /\ ShapedAsSrtTime(time_str)
        /\ LET f == ShownFields(time_str)
           IN  /\ f[2] < 60 /\ f[3] < 60 /\ f[4] < 1000
               /\ f[1] * 3600000 + f[2] * 60000 + f[3] * 1000 + f[4] = ms
               /\ f[1] = ms \div 3600000

\* A count of a day or more, formatted with an hours field of 24 or above.
C11_Witness ==
    /\ pc = "formatted"
    /\ ms >= 24 * 3600000
    /\ ShapedAsSrtTime(time_str)
    /\ ShownFields(time_str)[1] >= 24
    /\ ShownFields(time_str)[2] = 59 /\ ShownFields(time_str)[4] = 999

(***************************************************************************)
(* correct_srt.py: load_cuts.                                              *)
(***************************************************************************)
\* list.sort(key=lambda x: x[0]) inserting x: after every range whose start
\* is not greater (the sort is stable).
InsertByStart(sorted, x) ==
    LET k == Cardinality({i \in DOMAIN sorted : sorted[i][1] <= x[1]})
    IN  SubSeq(sorted, 1, k) \o <<x>> \o SubSeq(sorted, k + 1, Len(sorted))

RECURSIVE sort_by_start(_)
sort_by_start(cs) ==
    IF cs = <<>> THEN <<>>
    ELSE InsertByStart(sort_by_start(SubSeq(cs, 1, Len(cs) - 1)), cs[Len(cs)])

RECURSIVE load_loop(_, _, _)
\* The for loop of load_cuts from item number i on: the list built, or the
\* exception parse_time_to_ms raised.
load_loop(d, i, out) ==
    IF i > Len(d) THEN [err |-> FALSE, value |-> out]
    ELSE LET item == d[i]
         IN  IF "start" \in DOMAIN item /\ "end" \in DOMAIN item
             THEN LET start_ms == parse_time_to_ms(item["start"])
                      end_ms   == parse_time_to_ms(item["end"])
                  IN  IF start_ms.err \/ end_ms.err
                      THEN [err |-> TRUE, value |-> <<>>]
                      ELSE load_loop(d, i + 1,
                                     Append(out, <<start_ms.value, end_ms.value>>))
             ELSE load_loop(d, i + 1, out)

RECURSIVE drop_repeats(_)
\* The list without the ranges equal to the range before them.
drop_repeats(cs) ==
    IF Len(cs) < 2 THEN cs
    ELSE LET front == drop_repeats(SubSeq(cs, 1, Len(cs) - 1))
         IN  IF cs[Len(cs)] = cs[Len(cs) - 1] THEN front
             ELSE Append(front, cs[Len(cs)])

\* load_cuts removing duplicated ranges after the sort.
load_cuts_dedup(d) ==
    LET r == load_loop(d, 1, <<>>)
    IN  IF r.err THEN <<>> ELSE drop_repeats(sort_by_start(r.value))

\* load_cuts without the sort.
load_cuts_unsorted(d) ==
    LET r == load_loop(d, 1, <<>>)
    IN  IF r.err THEN <<>> ELSE r.value

\* load_cuts on the payload of an existing file: the sorted list, or [] when
\* an exception was caught.
load_cuts(d) ==
    LET r == load_loop(d, 1, <<>>)
    IN  IF r.err THEN <<>> ELSE sort_by_start(r.value)

(***************************************************************************)
(* The loader run: the payload of a cuts file, then load_cuts.             *)
(***************************************************************************)
MaxItems == 2

\* Timestamp texts of a payload: HH:MM:SS, MM:SS, a text of one field and a
\* text with a non-numeric field.
PayloadTexts ==
    {<<"0", "0", ":", "0", "0", ":", "0", "1">>,
     <<"0", "0", ":", "0", "0", ":", "0", "2">>,
     <<"0", "0", ":", "0", "0", ":", "0", "5">>,
     <<"0", "1", ":", "0", "0">>,
     <<"x">>,
     <<"0", ":", "x">>}

\* An item is a dict with or without the keys start and end.
Items == UNION {[ks -> PayloadTexts] : ks \in SUBSET {"start", "end"}}

Payloads == SeqsUpTo(Items, MaxItems)

InitLoad ==
    /\ pc = "file"
    /\ data \in Payloads
    /\ cuts = <<>>
    /\ MapIdle /\ ApplyIdle /\ CodecIdle
    /\ SrtIdle /\ AlignIdle /\ VideoIdle /\ JsonIdle
    /\ LateIdle

LoadCuts ==
    /\ pc = "file"
    /\ cuts' = load_cuts(data)
    /\ pc' = "loaded"
    /\ UNCHANGED <<data, mapVars, applyVars, codecVars,
                 srtVars, alignVars, videoVars, jsonVars, lateVars>>

NextLoad == LoadCuts

SpecLoad == InitLoad /\ [][NextLoad]_vars

(***************************************************************************)
(* Claims about load_cuts, checked under SpecLoad.                         *)
(***************************************************************************)
\* C6: the list load_cuts returns holds no range with start >= end.
C6_NoMalformedRange ==
    pc = "loaded" => \A i \in DOMAIN cuts : cuts[i][1] < cuts[i][2]

\* The item yields a range: both keys, both texts parsed without an error.
Parses(item) ==
    /\ "start" \in DOMAIN item /\ "end" \in DOMAIN item
    /\ ~parse_time_to_ms(item["start"]).err
    /\ ~parse_time_to_ms(item["end"]).err

RangeOf(item) ==
    <<parse_time_to_ms(item["start"]).value, parse_time_to_ms(item["end"]).value>>

Count(seq, x) == Cardinality({i \in DOMAIN seq : seq[i] = x})

\* C7: when every item of the payload parses, load_cuts returns the ranges in
\* ascending order of start, and every range with start < end is in the
\* result as many times as in the input, bounds unchanged: overlapping and
\* duplicated ranges are neither merged nor removed.
C7_SortedNothingMerged ==
    (pc = "loaded" /\ \A i \in DOMAIN data : Parses(data[i])) =>
        LET input == [i \in DOMAIN data |-> RangeOf(data[i])]
        IN  /\ SortedByStart(cuts)
            /\ \A r \in Range(input) \cup Range(cuts) :
                  r[1] < r[2] => Count(cuts, r) = Count(input, r)

\* Two overlapping ranges given in descending order of start come back in
\* ascending order, both whole.
C7_Witness ==
    /\ pc = "loaded" /\ Len(data) = 2
    /\ \A i \in DOMAIN data : Parses(data[i])
    /\ RangeOf(data[1])[1] > RangeOf(data[2])[1]
    /\ cuts = <<RangeOf(data[2]), RangeOf(data[1])>>
    /\ Overlap(cuts[1], cuts[2])

(***************************************************************************)
(* correct_srt.py: the subtitle codec, parse_srt and save_srt.             *)
(***************************************************************************)
Arrow == <<"-", "-", ">">>

\* sep occurs in s from position k on.
StartsAt(s, sep, k) ==
    k + Len(sep) - 1 <= Len(s) /\ SubSeq(s, k, k + Len(sep) - 1) = sep

\* sep in s
ContainsStr(s, sep) == \E k \in DOMAIN s : StartsAt(s, sep, k)

RECURSIVE SplitStr(_, _)
\* str.split(sep) for a separator of several characters.
SplitStr(s, sep) ==
    IF ~ContainsStr(s, sep) THEN <<s>>
    ELSE LET k == CHOOSE x \in DOMAIN s :
                      StartsAt(s, sep, x) /\ \A j \in 1..(x - 1) : ~StartsAt(s, sep, j)
         IN  <<SubSeq(s, 1, k - 1)>> \o SplitStr(SubSeq(s, k + Len(sep), Len(s)), sep)

\* Where the match of the pattern \n\s*\n that starts at k ends: at the last
\* newline of the whitespace run after k (\s* is greedy); 0 without a match.
BlankMatchEnd(s, k) ==
    LET ends == {j \in (k + 1)..Len(s) :
                    s[j] = "\n" /\ \A m \in (k + 1)..j : IsSpace(s[m])}
    IN  IF s[k] = "\n" /\ ends # {}
        THEN CHOOSE j \in ends : \A x \in ends : x <= j
        ELSE 0

RECURSIVE split_blocks(_)
\* re.split(r'\n\s*\n', s): the texts between the leftmost matches.
split_blocks(s) ==
    LET starts == {k \in DOMAIN s : BlankMatchEnd(s, k) > 0}
    IN  IF starts = {} THEN <<s>>
        ELSE LET k == CHOOSE x \in starts : \A y \in starts : x <= y
             IN  <<SubSeq(s, 1, k - 1)>>
                    \o split_blocks(SubSeq(s, BlankMatchEnd(s, k) + 1, Len(s)))

\* The body of the loop of parse_srt for one block: the records it appends
\* (one or none), or the ValueError raised inside the try.
parse_block(block) ==
    LET lines == Split(Strip(block), "\n")
    IN  IF Len(lines) >= 2 THEN
            IF ~IsInt(Strip(lines[1])) THEN ValueError
            ELSE LET index     == IntOf(Strip(lines[1]))
                     time_line == Strip(lines[2])
                 IN  IF ContainsStr(time_line, Arrow) THEN
                         LET halves == SplitStr(time_line, Arrow)
                         IN  IF Len(halves) # 2 THEN ValueError
                             ELSE LET start_ms == parse_time_to_ms(halves[1])
                                      end_ms   == parse_time_to_ms(halves[2])
                                  IN  IF start_ms.err \/ end_ms.err THEN ValueError
                                      ELSE Ok(<<Sub(index, start_ms.value, end_ms.value,
                                                    Join(SubSeq(lines, 3, Len(lines)),
                                                         "\n"))>>)
                     ELSE Ok(<<>>)
        ELSE Ok(<<>>)

RECURSIVE parse_loop(_, _, _)
\* The for loop of parse_srt from block number k on; "except ValueError:
\* continue" drops the block that raised.
parse_loop(blocks, k, out) ==
    IF k > Len(blocks) THEN out
    ELSE LET r == parse_block(blocks[k])
         IN  parse_loop(blocks, k + 1, IF r.err THEN out ELSE out \o r.value)

\* parse_srt giving up at the first block that raises.
parse_srt_abort(c) ==
    LET blocks == split_blocks(Strip(c))
    IN  IF \E k \in DOMAIN blocks : parse_block(blocks[k]).err THEN <<>>
        ELSE parse_loop(blocks, 1, <<>>)

\* parse_srt on the text of an existing file.
parse_srt(c) == parse_loop(split_blocks(Strip(c)), 1, <<>>)

\* str(n)
Str(n) == IF n < 0 THEN <<"-">> \o Digits(0 - n) ELSE Digits(n)

RECURSIVE save_lines(_, _)
\* The list of lines save_srt builds, from record number k on.
save_lines(ss, k) ==
    IF k > Len(ss) THEN <<>>
    ELSE <<Str(ss[k].index),
           format_ms_to_srt(ss[k].start) \o <<" ">> \o Arrow \o <<" ">>
               \o format_ms_to_srt(ss[k].end),
           ss[k].text,
           <<>>>> \o save_lines(ss, k + 1)

\* save_srt: the text written to the file.
save_srt(ss) == Join(save_lines(ss, 1), "\n")

(***************************************************************************)
(* The subtitle codec run: an SRT text is parsed, or a track is saved and  *)
(* the text written is parsed back.                                        *)
(***************************************************************************)
MaxBlocks == 2
MaxRecords == 2

\* Blocks of an SRT file, each a list of lines: well formed ones, and ones
\* parse_srt has to skip.
BlockSamples ==
    {\* a block as save_srt writes it
     <<<<"1">>, <<"0", "0", ":", "0", "0", ":", "0", "1", ",", "0", "0", "0", " ", "-", "-", ">", " ", "0", "0", ":", "0", "0", ":", "0", "2", ",", "0", "0", "0">>, <<"h", "i">>>>,
     \* two-field times, a dot, padded index, text of two lines
     <<<<" ", "2", " ">>, <<"0", ":", "0", "1", " ", "-", "-", ">", " ", "0", ":", "0", "2", ".", "5">>, <<"h", "i">>, <<" ", "y", "o">>>>,
     \* no text line
     <<<<"3">>, <<"0", ":", "0", "3", " ", "-", "-", ">", " ", "0", ":", "0", "4">>>>,
     \* no spaces around the arrow
     <<<<"1", "0">>, <<"0", ":", "0", "1", "-", "-", ">", "0", ":", "0", "2", " ">>, <<"h", "i">>>>,
     \* one-field time texts: parse_time_to_ms returns 0
     <<<<"8">>, <<"a", " ", "-", "-", ">", " ", "b">>, <<"h", "i">>>>,
     \* negative index, start after end
     <<<<"-", "9">>, <<"1", ":", "0", "0", ":", "0", "0", " ", "-", "-", ">", " ", "0", ":", "0", "2">>, <<"h", "i">>>>,
     \* index not an integer
     <<<<"x">>, <<"0", ":", "0", "1", " ", "-", "-", ">", " ", "0", ":", "0", "2">>, <<"h", "i">>>>,
     \* no arrow
     <<<<"4">>, <<"0", ":", "0", "1", " ", "0", ":", "0", "2">>, <<"h", "i">>>>,
     \* two arrows
     <<<<"5">>, <<"0", ":", "0", "1", " ", "-", "-", ">", " ", "0", ":", "0", "2", " ", "-", "-", ">", " ", "0", ":", "0", "3">>, <<"h", "i">>>>,
     \* time field not a number
     <<<<"6">>, <<"0", ":", "x", " ", "-", "-", ">", " ", "0", ":", "0", "2">>, <<"h", "i">>>>,
     \* two millisecond separators
     <<<<"7">>, <<"0", ":", "0", "1", ",", "5", ",", "6", " ", "-", "-", ">", " ", "0", ":", "0", "2">>>>,
     \* one line
     <<<<"1", "1">>>>}

\* What separates two blocks: one blank line or more, of whitespace or empty.
BlockSeparators == {<<"\n", "\n">>, <<"\n", " ", "\t", "\n">>, <<"\n", "\n", " ", "\n">>}

\* What surrounds the blocks of the file.
FilePads == {<<>>, <<"\n">>}

RECURSIVE JoinBlocks(_, _)
JoinBlocks(bs, sep) ==
    IF bs = <<>> THEN <<>>
    ELSE IF Len(bs) = 1 THEN Join(bs[1], "\n")
    ELSE Join(bs[1], "\n") \o sep \o JoinBlocks(Tail(bs), sep)

\* The text of the file holding the blocks bs.
FileText(bs, sep, pad) == pad \o JoinBlocks(bs, sep) \o pad

\* Timestamps of a record: (start, end) in ms.
RecordTimes == {<<0, 1500>>, <<3661001, 360000000>>}

\* Texts of a record: empty, one line, two lines, and lines with a space at
\* the end or at the start.
RecordTexts == {<<>>, <<"h", "i">>, <<"h", "i", "\n", "y", "o">>, <<"h", "i", " ">>, <<" ", "h", "i">>}

\* Tracks handed to save_srt: indices 1..N, non-negative timestamps.
SavedTracks ==
    UNION {{[k \in 1..n |-> Sub(k, tm[k][1], tm[k][2], tx[k])] :
               tm \in [1..n -> RecordTimes], tx \in [1..n -> RecordTexts]} :
           n \in 0..MaxRecords}

InitSrt ==
    /\ \/ /\ pc = "file"
          /\ srt_blocks \in SeqsUpTo(BlockSamples, MaxBlocks)
          /\ \E sep \in BlockSeparators, pad \in FilePads :
                content = FileText(srt_blocks, sep, pad)
          /\ saved_subs = <<>>
       \/ /\ pc = "track"
          /\ saved_subs \in SavedTracks
          /\ srt_blocks = <<>> /\ content = <<>>
    /\ parsed_subs = <<>>
    /\ cuts = <<>>
    /\ MapIdle /\ ApplyIdle /\ LoadIdle /\ CodecIdle
    /\ AlignIdle /\ VideoIdle /\ JsonIdle
    /\ LateIdle

\* parse_srt on a file from outside
ParseSrt ==
    /\ pc = "file"
    /\ parsed_subs' = parse_srt(content)
    /\ pc' = "parsed"
    /\ UNCHANGED <<srt_blocks, saved_subs, content, cuts, mapVars, applyVars,
                   loadVars, codecVars, alignVars, videoVars, jsonVars, lateVars>>

\* save_srt
SaveSrt ==
    /\ pc = "track"
    /\ content' = save_srt(saved_subs)
    /\ pc' = "saved"
    /\ UNCHANGED <<srt_blocks, saved_subs, parsed_subs, cuts, mapVars, applyVars,
                   loadVars, codecVars, alignVars, videoVars, jsonVars, lateVars>>

\* parse_srt on the file save_srt wrote
ParseSaved ==
    /\ pc = "saved"
    /\ parsed_subs' = parse_srt(content)
    /\ pc' = "reparsed"
    /\ UNCHANGED <<srt_blocks, saved_subs, content, cuts, mapVars, applyVars,
                   loadVars, codecVars, alignVars, videoVars, jsonVars, lateVars>>

NextSrt == ParseSrt \/ SaveSrt \/ ParseSaved

SpecSrt == InitSrt /\ [][NextSrt]_vars

(***************************************************************************)
(* Claims about the subtitle codec, checked under SpecSrt.                 *)
(***************************************************************************)
\* The positions of the arrows of a line.
ArrowsOf(line) == {k \in DOMAIN line : StartsAt(line, Arrow, k)}

BeforeArrow(line) ==
    SubSeq(line, 1, (CHOOSE k \in ArrowsOf(line) : TRUE) - 1)

AfterArrow(line) ==
    SubSeq(line, (CHOOSE k \in ArrowsOf(line) : TRUE) + 3, Len(line))

\* The block has two lines or more, an integer index line and a time line
\* holding two timestamps parse_time_to_ms accepts around one arrow.
GoodBlock(ls) ==
    /\ Len(ls) >= 2
    /\ IsInt(ls[1])
    /\ Cardinality(ArrowsOf(ls[2])) = 1
    /\ ~parse_time_to_ms(BeforeArrow(ls[2])).err
    /\ ~parse_time_to_ms(AfterArrow(ls[2])).err

\* The record of a good block: its index, its two times, and the lines
\* after the time line joined by newlines.
RecordOfBlock(ls) ==
    Sub(IntOf(ls[1]),
        parse_time_to_ms(BeforeArrow(ls[2])).value,
        parse_time_to_ms(AfterArrow(ls[2])).value,
        Join(SubSeq(ls, 3, Len(ls)), "\n"))

GoodBlocks == {k \in DOMAIN srt_blocks : GoodBlock(srt_blocks[k])}

\* C12: parse_srt raises nothing and returns, in input order, one record for
\* each block with two lines or more, an integer index line and a time line
\* holding two parseable timestamps around one arrow, and nothing for any
\* other block: the record of a block does not depend on the other blocks.
C12_OneRecordPerGoodBlock ==
    pc = "parsed" =>
        /\ Len(parsed_subs) = Cardinality(GoodBlocks)
        /\ \A j \in DOMAIN parsed_subs :
              parsed_subs[j] = RecordOfBlock(srt_blocks[Nth(GoodBlocks, j)])

\* A block that raises ValueError (two arrows, a non-numeric time field, a
\* non-integer index) stands before a good block, whose record is returned.
C12_Witness ==
    /\ pc = "parsed" /\ Len(srt_blocks) = 2
    /\ parse_block(Join(srt_blocks[1], "\n")).err
    /\ GoodBlock(srt_blocks[2])
    /\ parsed_subs = <<RecordOfBlock(srt_blocks[2])>>
    /\ parsed_subs[1].text # <<>>

\* Some line of a text that is not empty is empty or holds whitespace only.
HasBlankLine(text) ==
    text # <<>> /\ \E k \in DOMAIN Split(text, "\n") : Strip(Split(text, "\n")[k]) = <<>>

\* C13: for every track with indices 1..N, non-negative integer timestamps
\* and texts without a blank line, parse_srt of what save_srt wrote returns
\* the track record by record, empty and multi-line texts included.
C13_CodecRoundTrip ==
    (pc = "reparsed" /\ \A k \in DOMAIN saved_subs : ~HasBlankLine(saved_subs[k].text))
        => parsed_subs = saved_subs

(***************************************************************************)
(* check_srt_alignment.py: check_alignment, step by step.                  *)
(***************************************************************************)
MaxAlignRecords == 3

\* Timestamps of the records handed to the checks, in ms.
AlignTimes == {0, 1, 2, 3}

\* A track parse_srt may return to check_alignment: any number of records,
\* also none, with any start and end; tm holds the (start, end) pairs.
AlignTrack(tm) == [k \in DOMAIN tm |-> Sub(k, tm[k][1], tm[k][2], <<>>)]

\* The loop body keeping the first issue of a record only.
issues_at_first_only(ss, i) ==
    LET every == issues_at(ss, i)
    IN  IF every = <<>> THEN <<>> ELSE <<every[1]>>

\* The loop body with the unsorted check as an elif of the overlap check.
issues_at_elif(ss, i) ==
    LET every == issues_at(ss, i)
    IN  IF \E a \in DOMAIN every : every[a].kind = "overlap"
        THEN SelectSeq(every, LAMBDA e : e.kind # "unsorted")
        ELSE every

\* The loop body counting a record that starts where the one before ends as
\* an overlap.
issues_at_touching(ss, i) ==
    issues_at(ss, i)
        \o (IF i > 1 /\ ss[i].start = ss[i - 1].end
            THEN <<Issue("overlap", i, 0)>> ELSE <<>>)

\* One iteration of the loop of check_alignment.
check_record(ss, i) == issues_at(ss, i)

InitAlign ==
    /\ pc = "call"
    /\ srt_exists \in BOOLEAN
    /\ align_subs = <<>> /\ rec_i = 0 /\ issues = <<>> /\ alignment_ok = FALSE
    /\ cuts = <<>>
    /\ MapIdle /\ ApplyIdle /\ LoadIdle /\ CodecIdle
    /\ SrtIdle /\ VideoIdle /\ JsonIdle
    /\ LateIdle

\* if not os.path.exists(srt_path): return False
CheckExists ==
    /\ pc = "call"
    /\ IF srt_exists
       THEN pc' = "parse" /\ UNCHANGED alignment_ok
       ELSE pc' = "returned" /\ alignment_ok' = FALSE
    /\ UNCHANGED <<srt_exists, align_subs, rec_i, issues, cuts, mapVars,
                   applyVars, loadVars, codecVars, srtVars, videoVars, jsonVars, lateVars>>

\* ParseForAlignment without the test for an empty track.
ParseForAlignment_unguarded ==
    /\ pc = "parse"
    /\ \E n \in 0..MaxAlignRecords :
          \E tm \in [1..n -> AlignTimes \X AlignTimes] : align_subs' = AlignTrack(tm)
    /\ pc' = "check"
    /\ UNCHANGED <<srt_exists, rec_i, issues, alignment_ok, cuts, mapVars,
                   applyVars, loadVars, codecVars, srtVars, videoVars, jsonVars, lateVars>>

\* subs = parse_srt(srt_path); if not subs: return False
ParseForAlignment ==
    /\ pc = "parse"
    /\ \E n \in 0..MaxAlignRecords :
          \E tm \in [1..n -> AlignTimes \X AlignTimes] : align_subs' = AlignTrack(tm)
    /\ IF align_subs' = <<>>
       THEN pc' = "returned" /\ alignment_ok' = FALSE
       ELSE pc' = "check" /\ UNCHANGED alignment_ok
    /\ UNCHANGED <<srt_exists, rec_i, issues, cuts, mapVars,
                   applyVars, loadVars, codecVars, srtVars, videoVars, jsonVars, lateVars>>

\* One iteration of "for i in range(len(subs))": the three checks on record
\* number rec_i + 1.
CheckRecord ==
    /\ pc = "check"
    /\ rec_i < Len(align_subs)
    /\ issues' = issues \o check_record(align_subs, rec_i + 1)
    /\ rec_i' = rec_i + 1
    /\ UNCHANGED <<pc, srt_exists, align_subs, alignment_ok, cuts, mapVars,
                   applyVars, loadVars, codecVars, srtVars, videoVars, jsonVars, lateVars>>

\* After the loop: return False if issues else True
Report ==
    /\ pc = "check"
    /\ rec_i = Len(align_subs)
    /\ alignment_ok' = (issues = <<>>)
    /\ pc' = "returned"
    /\ UNCHANGED <<srt_exists, align_subs, rec_i, issues, cuts, mapVars,
                   applyVars, loadVars, codecVars, srtVars, videoVars, jsonVars, lateVars>>

NextAlign == CheckExists \/ ParseForAlignment \/ CheckRecord \/ Report

SpecAlign == InitAlign /\ [][NextAlign]_vars

(***************************************************************************)
(* Claims about check_alignment, checked under SpecAlign.                  *)
(***************************************************************************)
\* check_alignment has returned after running its checks on a track.
Checked == pc = "returned" /\ srt_exists /\ align_subs # <<>>

\* The pairs (i-1, i) of the track, named by i.
Pairs == {p \in DOMAIN align_subs : p > 1}

\* C14: on a non-empty parsed track check_alignment returns True if and only
\* if every record has start < end and every adjacent pair has
\* start[i] >= end[i-1] and start[i] >= start[i-1]; start[i] = end[i-1] is
\* not an overlap.
C14_TrueIffAligned ==
    Checked =>
        (alignment_ok <=>
            /\ \A k \in DOMAIN align_subs : align_subs[k].start < align_subs[k].end
            /\ \A p \in Pairs :
                  /\ align_subs[p].start >= align_subs[p - 1].end
                  /\ align_subs[p].start >= align_subs[p - 1].start)

\* True is returned for a track of three records in which each record
\* starts exactly where the one before it ends.
C14_Witness ==
    /\ Checked /\ alignment_ok
    /\ Len(align_subs) = 3
    /\ align_subs[2].start = align_subs[1].end
    /\ align_subs[3].start = align_subs[2].end

\* The entries of the issue list of the given kind for position p.
Entries(kind, p) == {a \in DOMAIN issues : issues[a].kind = kind /\ issues[a].pos = p}

\* The place of a kind among the checks of one record.
KindRank(kind) ==
    CASE kind = "duration" -> 1 [] kind = "overlap" -> 2 [] kind = "unsorted" -> 3

\* C15: the issue list holds exactly one entry per record with start >= end,
\* one per adjacent pair with start[i] < end[i-1], carrying the magnitude
\* end[i-1] - start[i], and one per adjacent pair with start[i] < start[i-1],
\* by record position and within a position as duration, overlap, unsorted;
\* it holds nothing else.
C15_EveryViolationListed ==
    Checked =>
        /\ \A k \in DOMAIN align_subs :
              Cardinality(Entries("duration", k)) =
                  (IF align_subs[k].start >= align_subs[k].end THEN 1 ELSE 0)
        /\ \A p \in Pairs :
              /\ Cardinality(Entries("overlap", p)) =
                    (IF align_subs[p].start < align_subs[p - 1].end THEN 1 ELSE 0)
              /\ \A a \in Entries("overlap", p) :
                    issues[a].overlap_ms = align_subs[p - 1].end - align_subs[p].start
              /\ Cardinality(Entries("unsorted", p)) =
                    (IF align_subs[p].start < align_subs[p - 1].start THEN 1 ELSE 0)
        /\ \A a \in DOMAIN issues :
              /\ issues[a].kind \in {"duration", "overlap", "unsorted"}
              /\ issues[a].pos \in DOMAIN align_subs
              /\ issues[a].kind # "duration" => issues[a].pos \in Pairs
        /\ \A a, b \in DOMAIN issues :
              a < b =>
                  \/ issues[a].pos < issues[b].pos
                  \/ /\ issues[a].pos = issues[b].pos
                     /\ KindRank(issues[a].kind) < KindRank(issues[b].kind)

\* A track with a violation on its second record and all three violations on
\* its third: four entries, none lost after the first.
C15_Witness ==
    /\ Checked /\ Len(align_subs) = 3
    /\ Len(issues) = 4
    /\ issues[1].pos = 2
    /\ <<issues[2].kind, issues[3].kind, issues[4].kind>>
          = <<"duration", "overlap", "unsorted">>
    /\ issues[3].overlap_ms = 2

\* C16: a pair (i-1, i) gets an Unsorted entry with no Overlap entry exactly
\* when end[i-1] <= start[i] < start[i-1], which needs record i-1 to have a
\* non-positive duration; when start[i] < end[i-1] and start[i] < start[i-1]
\* both hold, both entries are reported for the pair.
C16_UnsortedIndependent ==
    Checked =>
        \A p \in Pairs :
            LET prev    == align_subs[p - 1]
                current == align_subs[p]
            IN  /\ (Entries("unsorted", p) # {} /\ Entries("overlap", p) = {})
                      <=> (prev.end <= current.start /\ current.start < prev.start)
                /\ (Entries("unsorted", p) # {} /\ Entries("overlap", p) = {})
                      => prev.start >= prev.end
                /\ (current.start < prev.end /\ current.start < prev.start)
                      => (Entries("unsorted", p) # {} /\ Entries("overlap", p) # {})

\* One track shows both cases: its second record is unsorted without an
\* overlap, its third is unsorted and overlaps.
C16_Witness ==
    /\ Checked /\ Len(align_subs) = 3
    /\ Entries("unsorted", 2) # {} /\ Entries("overlap", 2) = {}
    /\ Entries("unsorted", 3) # {} /\ Entries("overlap", 3) # {}

\* C17: check_alignment returns False and runs none of its checks when the
\* file does not exist or when parse_srt returns an empty track.
C17_EarlyFalse ==
    /\ (pc = "returned" /\ (~srt_exists \/ align_subs = <<>>)) =>
          alignment_ok = FALSE /\ rec_i = 0 /\ issues = <<>>
    /\ pc = "check" => (srt_exists /\ align_subs # <<>>)
    /\ ~srt_exists => align_subs = <<>>

\* The file exists and parses to an empty track: False, no check run.
C17_Witness ==
    /\ pc = "returned" /\ srt_exists /\ align_subs = <<>>
    /\ alignment_ok = FALSE /\ rec_i = 0

(***************************************************************************)
(* The cut path with malformed items, checked under SpecLoad.              *)
(***************************************************************************)
\* C18: an item of the payload that cannot be interpreted (a key missing, a
\* timestamp field that is not a number) is dropped alone: load_cuts still
\* returns the range of every well-formed item of the payload.
C18_DroppedItemByItem ==
    pc = "loaded" =>
        \A k \in DOMAIN data :
            Parses(data[k]) => \E c \in DOMAIN cuts : cuts[c] = RangeOf(data[k])

(***************************************************************************)
(* cut_mp4.py: process_video, the sub-clips it requests from the video.    *)
(***************************************************************************)
\* item.get(key, 0)
get(item, key) == IF key \in DOMAIN item THEN item[key] ELSE 0

\* time_to_seconds of a number: float(t_str), the same number.
time_to_seconds(v) == v

min(a, b) == IF a <= b THEN a ELSE b
max(a, b) == IF a >= b THEN a ELSE b

RECURSIVE parse_intervals(_, _, _)
\* The loop over the items from item number k on: the (s, e) tuples kept,
\* e clamped to the duration.
parse_intervals(its, k, duration) ==
    IF k > Len(its) THEN <<>>
    ELSE LET s == time_to_seconds(get(its[k], "start"))
             e == time_to_seconds(get(its[k], "end"))
         IN  IF s >= e THEN parse_intervals(its, k + 1, duration)
             ELSE IF s >= duration THEN parse_intervals(its, k + 1, duration)
             ELSE <<<<s, min(e, duration)>>>> \o parse_intervals(its, k + 1, duration)

\* Tuple order: by the first component, then by the second.
TupleLeq(a, b) == a[1] < b[1] \/ (a[1] = b[1] /\ a[2] <= b[2])

\* list.sort() inserting x into a sorted list of tuples.
InsertTuple(sorted, x) ==
    LET k == Cardinality({j \in DOMAIN sorted : TupleLeq(sorted[j], x)})
    IN  SubSeq(sorted, 1, k) \o <<x>> \o SubSeq(sorted, k + 1, Len(sorted))

RECURSIVE sort_tuples(_)
\* parsed_intervals.sort()
sort_tuples(ps) ==
    IF ps = <<>> THEN <<>>
    ELSE InsertTuple(sort_tuples(SubSeq(ps, 1, Len(ps) - 1)), ps[Len(ps)])

RECURSIVE remove_loop(_, _, _, _, _)
\* Remove mode from interval number k on: the clips requested so far, then
\* the clip after the last interval.
remove_loop(ps, k, last_end, clips, duration) ==
    IF k > Len(ps)
    THEN IF last_end < duration THEN Append(clips, <<last_end, duration>>) ELSE clips
    ELSE remove_loop(ps, k + 1, max(last_end, ps[k][2]),
                     IF ps[k][1] > last_end
                     THEN Append(clips, <<last_end, ps[k][1]>>) ELSE clips,
                     duration)

RECURSIVE remove_loop_last_wins(_, _, _, _, _)
\* Remove mode with last_end = end instead of max(last_end, end).
remove_loop_last_wins(ps, k, last_end, clips, duration) ==
    IF k > Len(ps)
    THEN IF last_end < duration THEN Append(clips, <<last_end, duration>>) ELSE clips
    ELSE remove_loop_last_wins(ps, k + 1, ps[k][2],
                     IF ps[k][1] > last_end
                     THEN Append(clips, <<last_end, ps[k][1]>>) ELSE clips,
                     duration)

\* process_video with the remove loop that forgets the farthest end.
requested_clips_last_wins(its, duration, md) ==
    LET parsed_intervals == sort_tuples(parse_intervals(its, 1, duration))
    IN  IF md = "remove" THEN remove_loop_last_wins(parsed_intervals, 1, 0, <<>>, duration)
        ELSE IF md = "keep" THEN parsed_intervals
        ELSE <<>>

\* final_clips of process_video: the (start, end) of every video.subclipped
\* call, in call order.
requested_clips(its, duration, md) ==
    LET parsed_intervals == sort_tuples(parse_intervals(its, 1, duration))
    IN  IF md = "remove" THEN remove_loop(parsed_intervals, 1, 0, <<>>, duration)
        ELSE IF md = "keep" THEN parsed_intervals
        ELSE <<>>

(***************************************************************************)
(* The video run: a list of interval items, a video, then process_video.   *)
(***************************************************************************)
MaxIntervals == 3

\* Times of the items, in seconds: the start of the video, points inside
\* it, and a point beyond its end.
VideoSeconds == {0, 2, 4, 6, 8, 12}

VideoDurations == {8, 10}

\* Items with start < end, one that starts beyond the end of the video, two
\* with start >= end, and two with a key missing (a missing key reads as 0).
VideoItems ==
    {[start |-> ab[1], end |-> ab[2]] :
        ab \in {xy \in VideoSeconds \X VideoSeconds : xy[1] < xy[2]}}
        \cup {[start |-> 12, end |-> 15]}
        \cup {[start |-> 6, end |-> 2], [start |-> 4, end |-> 4]}
        \cup {[end |-> 6], [start |-> 4]}

InitVideo ==
    /\ pc = "video"
    /\ intervals \in SeqsUpTo(VideoItems, MaxIntervals)
    /\ initial_length \in VideoDurations
    /\ mode \in {"remove", "keep"}
    /\ final_clips = <<>>
    /\ cuts = <<>>
    /\ MapIdle /\ ApplyIdle /\ LoadIdle /\ CodecIdle
    /\ SrtIdle /\ AlignIdle /\ JsonIdle
    /\ LateIdle

\* process_video: no video is opened for an empty list; otherwise the
\* sub-clips are requested.
ProcessVideo ==
    /\ pc = "video"
    /\ IF Len(intervals) = 0
       THEN final_clips' = <<>> /\ pc' = "nothing to do"
       ELSE final_clips' = requested_clips(intervals, initial_length, mode)
            /\ pc' = "clipped"
    /\ UNCHANGED <<intervals, initial_length, mode, cuts, mapVars, applyVars,
                   loadVars, codecVars, srtVars, alignVars, jsonVars, lateVars>>

NextVideo == ProcessVideo

SpecVideo == InitVideo /\ [][NextVideo]_vars

(***************************************************************************)
(* Claims about process_video, checked under SpecVideo.                    *)
(***************************************************************************)
\* The item is a valid interval: start < end and start < duration.
ValidItem(item) ==
    get(item, "start") < get(item, "end") /\ get(item, "start") < initial_length

\* The interval of a valid item, its end clamped to the duration.
ClampedOf(item) == <<get(item, "start"), min(get(item, "end"), initial_length)>>

ValidItems == {k \in DOMAIN intervals : ValidItem(intervals[k])}

\* The seconds x of the video, each standing for [x, x+1), that lie in a
\* removal interval, and those that lie in a requested sub-clip.
RemovedSeconds ==
    {x \in 0..(initial_length - 1) :
        \E k \in ValidItems :
            ClampedOf(intervals[k])[1] <= x /\ x < ClampedOf(intervals[k])[2]}

ClipSeconds ==
    {x \in 0..(initial_length - 1) :
        \E c \in DOMAIN final_clips : final_clips[c][1] <= x /\ x < final_clips[c][2]}

\* C19: in remove mode the sub-clips requested are exactly the complement,
\* within [0, duration], of the union of the valid intervals (start < end,
\* start < duration, end clamped): ascending, pairwise disjoint, none empty,
\* none meeting a removal interval, whatever the order and the overlaps of
\* the list; in keep mode one sub-clip per valid interval is requested, in
\* ascending order.
C19_ClipsAreComplement ==
    pc = "clipped" =>
        /\ mode = "remove" =>
              /\ \A c \in DOMAIN final_clips :
                    /\ 0 <= final_clips[c][1]
                    /\ final_clips[c][1] < final_clips[c][2]
                    /\ final_clips[c][2] <= initial_length
              /\ \A c \in DOMAIN final_clips :
                    c > 1 => final_clips[c - 1][2] <= final_clips[c][1]
              /\ ClipSeconds = (0..(initial_length - 1)) \ RemovedSeconds
        /\ mode = "keep" =>
              /\ Len(final_clips) = Cardinality(ValidItems)
              /\ \A k \in ValidItems :
                    Count(final_clips, ClampedOf(intervals[k]))
                        = Cardinality({j \in ValidItems :
                              ClampedOf(intervals[j]) = ClampedOf(intervals[k])})
              /\ \A c \in DOMAIN final_clips :
                    c > 1 => TupleLeq(final_clips[c - 1], final_clips[c])

\* Remove mode on an unsorted list in which one interval lies inside
\* another: the clips around the outer interval are requested.
C19_Witness ==
    /\ pc = "clipped" /\ mode = "remove" /\ initial_length = 10
    /\ Len(intervals) = 3 /\ ValidItems = {1, 2, 3}
    /\ ClampedOf(intervals[1])[1] > ClampedOf(intervals[2])[1]
    /\ ClampedOf(intervals[3])[2] > ClampedOf(intervals[1])[2]
    /\ ClampedOf(intervals[3])[1] < ClampedOf(intervals[1])[1]
    /\ Len(final_clips) = 2

(***************************************************************************)
(* json.loads on texts of objects, lists, strings without escapes and      *)
(* non-negative integers; any other text is a JSONDecodeError.             *)
(***************************************************************************)
JNull == JValue("null", 0, <<>>, <<>>)

\* The outcome of scanning one value: the value and the position after it.
Scanned(v, next) == [ok |-> TRUE, val |-> v, next |-> next]
NotJson == [ok |-> FALSE, val |-> JNull, next |-> 0]

\* The first position from k on that holds no whitespace (Len(s) + 1 if none).
SkipSpace(s, k) ==
    LET stops == {j \in k..Len(s) : ~IsSpace(s[j])}
    IN  IF stops = {} THEN Len(s) + 1 ELSE CHOOSE j \in stops : \A x \in stops : j <= x

\* A string that opens at the quote at k: up to the next quote.
json_string(s, k) ==
    LET closes == {j \in (k + 1)..Len(s) : s[j] = "\""}
    IN  IF closes = {} THEN NotJson
        ELSE LET j == CHOOSE x \in closes : \A y \in closes : x <= y
             IN  Scanned(JValue("str", 0, SubSeq(s, k + 1, j - 1), <<>>), j + 1)

\* A number that opens at the digit at k: 0, or a run of digits.
json_number(s, k) ==
    LET stops == {j \in k..Len(s) : ~IsDigit(s[j])}
        stop  == IF s[k] = "0" THEN k + 1
                 ELSE IF stops = {} THEN Len(s) + 1
                 ELSE CHOOSE j \in stops : \A x \in stops : j <= x
    IN  Scanned(JValue("int", DigitsValue(SubSeq(s, k, stop - 1)), <<>>, <<>>), stop)

\* dict assignment: a key given again keeps its place and takes the new value.
put_member(members, key, v) ==
    IF \E a \in DOMAIN members : members[a].key = key
    THEN [a \in DOMAIN members |->
             IF members[a].key = key THEN [key |-> key, val |-> v] ELSE members[a]]
    ELSE Append(members, [key |-> key, val |-> v])

RECURSIVE json_value(_, _)
RECURSIVE json_members(_, _, _)
RECURSIVE json_elements(_, _, _)

\* The value that starts at k, whitespace before it skipped.
json_value(s, k) ==
    LET j == SkipSpace(s, k)
    IN  IF j > Len(s) THEN NotJson
        ELSE IF s[j] = "{" THEN
            LET m == SkipSpace(s, j + 1)
            IN  IF m <= Len(s) /\ s[m] = "}"
                THEN Scanned(JValue("dict", 0, <<>>, <<>>), m + 1)
                ELSE json_members(s, m, <<>>)
        ELSE IF s[j] = "[" THEN
            LET m == SkipSpace(s, j + 1)
            IN  IF m <= Len(s) /\ s[m] = "]"
                THEN Scanned(JValue("list", 0, <<>>, <<>>), m + 1)
                ELSE json_elements(s, m, <<>>)
        ELSE IF s[j] = "\"" THEN json_string(s, j)
        ELSE IF IsDigit(s[j]) THEN json_number(s, j)
        ELSE NotJson

\* The members of an object from the key at k on, up to its closing brace.
json_members(s, k, members) ==
    IF k > Len(s) \/ s[k] # "\"" THEN NotJson
    ELSE LET key == json_string(s, k)
         IN  IF ~key.ok THEN NotJson
             ELSE LET colon == SkipSpace(s, key.next)
                  IN  IF colon > Len(s) \/ s[colon] # ":" THEN NotJson
                      ELSE LET v == json_value(s, colon + 1)
                           IN  IF ~v.ok THEN NotJson
                               ELSE LET after == SkipSpace(s, v.next)
                                        all   == put_member(members, key.val.str, v.val)
                                    IN  IF after > Len(s) THEN NotJson
                                        ELSE IF s[after] = "}"
                                        THEN Scanned(JValue("dict", 0, <<>>, all), after + 1)
                                        ELSE IF s[after] = ","
                                        THEN json_members(s, SkipSpace(s, after + 1), all)
                                        ELSE NotJson

\* The elements of a list from the value at k on, up to its closing bracket.
json_elements(s, k, elements) ==
    LET v == json_value(s, k)
    IN  IF ~v.ok THEN NotJson
        ELSE LET after == SkipSpace(s, v.next)
                 all   == Append(elements, v.val)
             IN  IF after > Len(s) THEN NotJson
                 ELSE IF s[after] = "]"
                 THEN Scanned(JValue("list", 0, <<>>, all), after + 1)
                 ELSE IF s[after] = ","
                 THEN json_elements(s, after + 1, all)
                 ELSE NotJson

\* json.loads(s): the value when the whole text is one value, whitespace
\* around it allowed; a JSONDecodeError otherwise.
json_loads(s) ==
    With(json_value(s, 1), LAMBDA v :
        IF v.ok /\ SkipSpace(s, v.next) > Len(s)
        THEN [err |-> FALSE, value |-> v.val]
        ELSE [err |-> TRUE, value |-> JNull])

(***************************************************************************)
(* main_video_editor.py: extract_json_from_text.                           *)
(***************************************************************************)
\* The backquote of a code fence is written "^" in the texts of this model:
\* a TLA+ string cannot hold a backquote.
Backquote == "^"

Fence == <<Backquote, Backquote, Backquote>>
FenceJson == Fence \o <<"j", "s", "o", "n">>

RangesKey == <<"r", "a", "n", "g", "e", "s", "_", "t", "o", "_", "d", "e", "l", "e", "t", "e">>
StartKey == <<"s", "t", "a", "r", "t">>
EndKey == <<"e", "n", "d">>

RECURSIVE remove_fences(_, _)
\* re.sub(fence + r'\s*', '', s): every occurrence of the fence, with the
\* whitespace after it, taken out from left to right.
remove_fences(s, fence) ==
    IF ~ContainsStr(s, fence) THEN s
    ELSE LET k == CHOOSE x \in DOMAIN s :
                      StartsAt(s, fence, x) /\ \A j \in 1..(x - 1) : ~StartsAt(s, fence, j)
         IN  SubSeq(s, 1, k - 1)
                \o remove_fences(LStrip(SubSeq(s, k + Len(fence), Len(s))), fence)

\* isinstance(v, dict) and key in v
HasKey(v, key) == v.kind = "dict" /\ \E a \in DOMAIN v.items : v.items[a].key = key

\* The outcome of the scan: the object returned from inside the loop, or
\* the objects collected in found_objects.
Hit(v) == [hit |-> TRUE, value |-> v, found |-> <<>>]
Collected(found) == [hit |-> FALSE, value |-> JNull, found |-> found]

\* The first position from k on that holds a brace (Len(s) + 1 if none).
NextBrace(s, k) ==
    LET braces == {j \in k..Len(s) : s[j] \in {"{", "}"}}
    IN  IF braces = {} THEN Len(s) + 1
        ELSE CHOOSE j \in braces : \A x \in braces : j <= x

RECURSIVE scan_braces(_, _, _, _, _)
\* The loop over the characters from position k on (positions count from
\* 1; start_idx is -1 while no candidate is open).  The characters that are
\* no brace change nothing and are passed over in one step.
scan_braces(s, k, brace_count, start_idx, found_objects) ==
    IF k > Len(s) THEN Collected(found_objects)
    ELSE IF s[k] = "{" THEN
        scan_braces(s, k + 1, brace_count + 1,
                    IF brace_count = 0 THEN k ELSE start_idx, found_objects)
    ELSE IF s[k] = "}" THEN
        IF brace_count - 1 = 0 /\ start_idx # -1 THEN
            With(json_loads(SubSeq(s, start_idx, k)), LAMBDA loaded :
                IF loaded.err THEN scan_braces(s, k + 1, 0, -1, found_objects)
                ELSE IF HasKey(loaded.value, RangesKey) THEN Hit(loaded.value)
                ELSE scan_braces(s, k + 1, 0, -1, Append(found_objects, loaded.value)))
        ELSE scan_braces(s, k + 1, brace_count - 1, start_idx, found_objects)
    ELSE scan_braces(s, NextBrace(s, k + 1), brace_count, start_idx, found_objects)

\* The value looks like a list of ranges: a non-empty list whose first
\* element is a dict with a start or an end.
LooksLikeRanges(v) ==
    /\ v.kind = "list" /\ Len(v.items) > 0
    /\ (HasKey(v.items[1], StartKey) \/ HasKey(v.items[1], EndKey))

\* The (object, member) places of found_objects that look like ranges.
RangePlaces(found) ==
    UNION {{<<o, m>> : m \in {x \in DOMAIN found[o].items :
                                  /\ found[o].kind = "dict"
                                  /\ LooksLikeRanges(found[o].items[x].val)}} :
           o \in DOMAIN found}

\* extract_json_from_text
extract_json_from_text(text) ==
    With(remove_fences(remove_fences(text, FenceJson), Fence), LAMBDA s :
    With(scan_braces(s, 1, 0, -1, <<>>), LAMBDA scan :
        IF scan.hit THEN Some(scan.value)
        ELSE IF RangePlaces(scan.found) # {} THEN
            LET pl == CHOOSE x \in RangePlaces(scan.found) :
                          \A y \in RangePlaces(scan.found) : TupleLeq(x, y)
            IN  Some(JValue("dict", 0, <<>>,
                            <<[key |-> RangesKey,
                               val |-> scan.found[pl[1]].items[pl[2]].val]>>))
        ELSE With(json_loads(Strip(s)), LAMBDA last :
                IF ~last.err /\ HasKey(last.value, RangesKey) THEN Some(last.value)
                ELSE None)))

(***************************************************************************)
(* The extraction run: a model response, then extract_json_from_text.      *)
(***************************************************************************)
\* Texts of one JSON object with the key ranges_to_delete.
RangeObjects ==
    {\* no range
     <<"{", "\"", "r", "a", "n", "g", "e", "s", "_", "t", "o", "_", "d", "e", "l", "e", "t", "e", "\"", ":", " ", "[", "]", "}">>,
     \* one range
     <<"{", "\"", "r", "a", "n", "g", "e", "s", "_", "t", "o", "_", "d", "e", "l", "e", "t", "e", "\"", ":", "[", "{", "\"", "s", "t", "a", "r", "t", "\"", ":", "\"", "1", "\"", ",", "\"", "e", "n", "d", "\"", ":", "\"", "2", "\"", "}", "]", "}">>,
     \* the key after another member
     <<"{", "\"", "n", "o", "t", "e", "\"", ":", " ", "7", ",", " ", "\"", "r", "a", "n", "g", "e", "s", "_", "t", "o", "_", "d", "e", "l", "e", "t", "e", "\"", ":", " ", "[", " ", "]", "}">>,
     \* a brace inside a string of the object
     <<"{", "\"", "r", "a", "n", "g", "e", "s", "_", "t", "o", "_", "d", "e", "l", "e", "t", "e", "\"", ":", "[", "]", ",", "\"", "n", "o", "t", "e", "\"", ":", "\"", "}", "\"", "}">>}

\* Texts of one JSON object without that key.
OtherObjects ==
    {\* ranges under another key
     <<"{", "\"", "c", "u", "t", "s", "\"", ":", "[", "{", "\"", "s", "t", "a", "r", "t", "\"", ":", "\"", "1", "\"", ",", "\"", "e", "n", "d", "\"", ":", "\"", "2", "\"", "}", "]", "}">>,
     \* no ranges at all
     <<"{", "\"", "n", "o", "t", "e", "\"", ":", " ", "7", "}">>}

\* What a response holds around the object.
Noise ==
    {\* nothing
     <<>>,
     \* prose
     <<"H", "e", "r", "e", ":", "\n">>,
     \* an opening fence
     <<"^", "^", "^", "j", "s", "o", "n", "\n">>,
     \* a closing fence
     <<"\n", "^", "^", "^">>,
     \* a stray opening brace
     <<"{", " ">>,
     \* a stray closing brace
     <<"}", " ">>,
     \* braces around text that is no JSON
     <<"{", "x", "}", " ">>}

InitJson ==
    /\ pc = "response"
    /\ embedded \in RangeObjects \cup OtherObjects \cup {<<>>}
    /\ \E before \in Noise, after \in Noise :
          response_text = before \o embedded \o after
    /\ extracted = None
    /\ cuts = <<>>
    /\ MapIdle /\ ApplyIdle /\ LoadIdle /\ CodecIdle
    /\ SrtIdle /\ AlignIdle /\ VideoIdle
    /\ LateIdle

ExtractJson ==
    /\ pc = "response"
    /\ extracted' = extract_json_from_text(response_text)
    /\ pc' = "extracted"
    /\ UNCHANGED <<embedded, response_text, cuts, mapVars, applyVars, loadVars,
                   codecVars, srtVars, alignVars, videoVars, lateVars>>

NextJson == ExtractJson

SpecJson == InitJson /\ [][NextJson]_vars

(***************************************************************************)
(* Claims about extract_json_from_text, checked under SpecJson.            *)
(***************************************************************************)
\* C20: for a text made of one JSON object with the key ranges_to_delete
\* and of non-JSON text around it (prose, code fences, stray braces),
\* extract_json_from_text returns that object; for a text that holds no
\* JSON object it returns None.
C20_ObjectExtracted ==
    pc = "extracted" =>
        /\ embedded \in RangeObjects => extracted = Some(json_loads(embedded).value)
        /\ embedded = <<>> => extracted = None

(***************************************************************************)
(* main of main_video_editor.py, one action per step of the workflow.      *)
(*                                                                         *)
(* A path is a string and abspath leaves it alone (every path is taken as  *)
(* absolute); NoPath stands for the falsy results None and ''.  files is   *)
(* what os.path.exists sees; a file, once written, stays.  main looks its  *)
(* collaborators up by module name at the time of the call, so a call      *)
(* returns, raises an Exception, or leaves the process (the exit(1) of     *)
(* common_utils.get_api_key, the SystemExit of extract_mp3_from_mp4).      *)
(* The name apply_cuts_to_srt is taken to resolve to correct_srt.py, the   *)
(* module that defines main(srt_path, cuts_json_path).                     *)
(***************************************************************************)
EarlyIdle ==
    /\ MapIdle /\ ApplyIdle /\ LoadIdle /\ CodecIdle
    /\ SrtIdle /\ AlignIdle /\ VideoIdle /\ JsonIdle

\* What a part modelled after the first ones leaves alone, and how it finds
\* the others at its start.
notMain == <<cuts, earlyVars, convVars, corrVars, cleanVars, segVars>>
notConv == <<cuts, earlyVars, mainVars, corrVars, cleanVars, segVars>>
notCorr == <<cuts, earlyVars, mainVars, convVars, cleanVars, segVars>>
notClean == <<cuts, earlyVars, mainVars, convVars, corrVars, segVars>>
notSeg == <<cuts, earlyVars, mainVars, convVars, corrVars, cleanVars>>
OnlyMain == cuts = <<>> /\ EarlyIdle /\ ConvIdle /\ CorrIdle /\ CleanIdle /\ SegIdle
OnlyConv == cuts = <<>> /\ EarlyIdle /\ MainIdle /\ CorrIdle /\ CleanIdle /\ SegIdle
OnlyCorr == cuts = <<>> /\ EarlyIdle /\ MainIdle /\ ConvIdle /\ CleanIdle /\ SegIdle
OnlyClean == cuts = <<>> /\ EarlyIdle /\ MainIdle /\ ConvIdle /\ CorrIdle /\ SegIdle
OnlySeg == cuts = <<>> /\ EarlyIdle /\ MainIdle /\ ConvIdle /\ CorrIdle /\ CleanIdle

NoPath == ""

\* The ways a call of a collaborator ends: it returns the path of a file that
\* exists, a path with no file behind it, None; it raises; it exits.
Outcomes == {"file", "missing", "empty", "raise", "exit"}

\* convert_gemini_response_to_cut_format, cut_mp4.process_video and the main
\* of correct_srt.py hold no exit of their own; the others ask
\* common_utils.get_api_key for the key, which exits when none is given.
OutcomesOf(step) ==
    IF step \in {"convert_gemini_response_to_cut_format", "cut_mp4.process_video",
                 "apply_cuts_to_srt.main"}
    THEN Outcomes \ {"exit"}
    ELSE Outcomes

Call(step, arg, outcome) == [step |-> step, arg |-> arg, outcome |-> outcome]

PathOf(name, outcome) == IF outcome \in {"file", "missing"} THEN name ELSE NoPath

Written(name, outcome) == IF outcome = "file" THEN {name} ELSE {}

\* What transcribe_to_srt.main hands back.  The function of
\* transcribe_to_srt.py returns outpath, a str, after writing the file, and
\* None when there is nothing to process ("str", "None"); the doubles of
\* test_main_video_editor.py return a pair (path, language) ("pair").
TranscribeResults ==
    {[shape |-> "str", path |-> "video.srt", language |-> "", wrote |-> TRUE],
     [shape |-> "None", path |-> NoPath, language |-> "", wrote |-> FALSE],
     [shape |-> "raise", path |-> NoPath, language |-> "", wrote |-> FALSE],
     [shape |-> "exit", path |-> NoPath, language |-> "", wrote |-> FALSE]}
    \cup {[shape |-> "pair", path |-> p, language |-> l, wrote |-> w] :
             p \in {NoPath, "video.srt"}, l \in {"", "en"}, w \in BOOLEAN}

\* srt_path, detected_language = <result>: only a pair unpacks into two names
\* (outpath ends in ".srt" or ".txt", so it never has two characters).
Unpacks(r) == r.shape = "pair"

\* How the call is entered in calls: a pair counts as one of Outcomes, by the
\* path it holds and the file behind it.
TranscribeOutcome(r) ==
    IF r.shape # "pair" THEN r.shape
    ELSE IF r.path = NoPath THEN "empty"
    ELSE IF r.wrote THEN "file"
    ELSE "missing"

Mp4Paths == {"", "video.mp4", "video.mov", "gone.mp4"}

ModeInputs == {"", "1", "2", "3"}

Placeholders == {"Skipped", "Failed"}

InitMain ==
    /\ pc = "main"
    /\ no_cut_mode = FALSE
    /\ srt_path = NoPath
    /\ detected_language = ""
    /\ corrected_srt_path = "Skipped"
    /\ files \in {{"video.mp4", "video.mov"} \cup fs : fs \in SUBSET Placeholders}
    /\ calls = <<>>
    /\ OnlyMain

\* lines 218-265: the path, the extension question, the mode.
AskInputs ==
    /\ pc = "main"
    /\ \E mp4_path \in Mp4Paths, response \in {"y", "n"}, mode_input \in ModeInputs :
        IF mp4_path = "" \/ mp4_path \notin files
           \/ (mp4_path = "video.mov" /\ response # "y")
        THEN pc' = "returned" /\ UNCHANGED no_cut_mode
        ELSE pc' = "step 1" /\ no_cut_mode' = (mode_input = "2")
    /\ UNCHANGED <<srt_path, detected_language, corrected_srt_path, files, calls,
                   notMain>>

\* STEP 1, lines 272-298.
Transcribe ==
    /\ pc = "step 1"
    /\ \E r \in TranscribeResults :
        /\ calls' = Append(calls, Call("transcribe_to_srt.main", "video.mp4",
                                      TranscribeOutcome(r)))
        /\ files' = files \cup (IF r.wrote THEN {"video.srt"} ELSE {})
        /\ IF r.shape = "exit"
           THEN pc' = "exited" /\ UNCHANGED <<srt_path, detected_language>>
           ELSE IF r.shape = "raise" \/ ~Unpacks(r)
                   \/ r.path = NoPath \/ r.path \notin files'
           THEN pc' = "returned" /\ UNCHANGED <<srt_path, detected_language>>
           ELSE /\ srt_path' = r.path
                /\ detected_language' = r.language
                /\ pc' = "step 2"
    /\ UNCHANGED <<no_cut_mode, corrected_srt_path, notMain>>

\* STEP 2, lines 305-326.
CorrectTranscription ==
    /\ pc = "step 2"
    /\ detected_language' = IF detected_language = "" THEN "en" ELSE detected_language
    /\ \E o \in OutcomesOf("correct_srt_errors.process_srt_correction") :
        LET corrected_transcription_path == PathOf("video_corrected_by_gemini.srt", o) IN
        /\ calls' = Append(calls,
               Call("correct_srt_errors.process_srt_correction", srt_path, o))
        /\ files' = files \cup Written("video_corrected_by_gemini.srt", o)
        /\ IF o = "exit"
           THEN pc' = "exited" /\ UNCHANGED srt_path
           ELSE /\ srt_path' = IF o # "raise" /\ corrected_transcription_path # NoPath
                                  /\ corrected_transcription_path \in files'
                               THEN corrected_transcription_path
                               ELSE srt_path
                /\ pc' = IF no_cut_mode THEN "step 7" ELSE "step 3"
    /\ UNCHANGED <<no_cut_mode, corrected_srt_path, notMain>>

\* FatalStep without its returns: a failed step is followed by the next one.
FatalStep_lenient(here, step, arg, name, next) ==
    /\ pc = here
    /\ \E o \in OutcomesOf(step) :
        /\ calls' = Append(calls, Call(step, arg, o))
        /\ files' = files \cup Written(name, o)
        /\ pc' = IF o = "exit" THEN "exited" ELSE next
    /\ UNCHANGED <<no_cut_mode, srt_path, detected_language, corrected_srt_path,
                   notMain>>

\* A step of the cut workflow that ends main when it fails: the call, the
\* "if not <path>" test and the os.path.exists test of STEP 3 (lines 335-355),
\* STEP 4 (lines 362-382) and STEP 5 (lines 389-409).
FatalStep(here, step, arg, name, next) ==
    /\ pc = here
    /\ \E o \in OutcomesOf(step) :
        /\ calls' = Append(calls, Call(step, arg, o))
        /\ files' = files \cup Written(name, o)
        /\ pc' = IF o = "exit" THEN "exited"
                 ELSE IF o = "raise" \/ PathOf(name, o) = NoPath
                         \/ PathOf(name, o) \notin files'
                 THEN "returned"
                 ELSE next
    /\ UNCHANGED <<no_cut_mode, srt_path, detected_language, corrected_srt_path,
                   notMain>>

AnalyzeSrt ==
    FatalStep("step 3", "audio_cleaner.process_srt_file", srt_path,
              "video_gemini_response.txt", "step 4")

ConvertRanges ==
    FatalStep("step 4", "convert_gemini_response_to_cut_format",
              "video_gemini_response.txt",
              "video_gemini_response_ranges.json", "step 5")

CutVideo ==
    FatalStep("step 5", "cut_mp4.process_video", "video.mp4",
              "video_cleaned.mp4", "step 6")

\* STEP 6, lines 416-436.
CorrectTimestamps ==
    /\ pc = "step 6"
    /\ \E o \in OutcomesOf("apply_cuts_to_srt.main") :
        /\ calls' = Append(calls, Call("apply_cuts_to_srt.main", srt_path, o))
        /\ files' = files \cup Written("video_corrected.srt", o)
        /\ IF o = "exit"
           THEN pc' = "exited" /\ UNCHANGED corrected_srt_path
           ELSE /\ corrected_srt_path' =
                       CASE o = "raise"   -> "Error: e"
                         [] o = "empty"   -> "Failed"
                         [] o = "missing" -> "Not found"
                         [] OTHER         -> "video_corrected.srt"
                /\ pc' = "step 7"
    /\ UNCHANGED <<no_cut_mode, srt_path, detected_language, notMain>>

\* lines 450-455: the SRT handed to the chapter generator, NoPath for none.
valid_srt_for_chapters ==
    IF corrected_srt_path # NoPath /\ corrected_srt_path \in files
    THEN corrected_srt_path
    ELSE IF srt_path # NoPath /\ srt_path \in files
    THEN srt_path
    ELSE NoPath

\* STEP 7, lines 445-476.
GenerateChapters ==
    /\ pc = "step 7"
    /\ IF valid_srt_for_chapters = NoPath
       THEN pc' = "summary" /\ UNCHANGED <<calls, files>>
       ELSE \E o \in OutcomesOf("generate_chapters.generate_chapters") :
              /\ calls' = Append(calls, Call("generate_chapters.generate_chapters",
                                             valid_srt_for_chapters, o))
              /\ files' = files \cup Written("chapters.txt", o)
              /\ pc' = IF o = "exit" THEN "exited" ELSE "summary"
    /\ UNCHANGED <<no_cut_mode, srt_path, detected_language, corrected_srt_path,
                   notMain>>

\* lines 479-500: the summary; get_total_gemini_cost reads a counter.
PrintSummary ==
    /\ pc = "summary"
    /\ calls' = Append(calls, Call("common_utils.get_total_gemini_cost", NoPath, "file"))
    /\ pc' = "complete"
    /\ UNCHANGED <<no_cut_mode, srt_path, detected_language, corrected_srt_path,
                   files, notMain>>

NextMain ==
    \/ AskInputs
    \/ Transcribe
    \/ CorrectTranscription
    \/ AnalyzeSrt
    \/ ConvertRanges
    \/ CutVideo
    \/ CorrectTimestamps
    \/ GenerateChapters
    \/ PrintSummary

SpecMain == InitMain /\ [][NextMain]_vars

(***************************************************************************)
(* Claims about main, checked under SpecMain.                              *)
(***************************************************************************)
Steps(names) == {i \in DOMAIN calls : calls[i].step \in names}

\* C21: when transcribe_to_srt.main of transcribe_to_srt.py has completed and
\* written its output file, main has not ended in the error branch of Step 1:
\* it holds the path of that file as srt_path and goes on to Step 2.
C21_ProceedsToStep2 ==
    (calls # <<>> /\ calls[1].outcome = "str" /\ "video.srt" \in files)
        => (pc # "returned" /\ srt_path = "video.srt")

AllStepsSucceeded ==
    /\ pc = "complete"
    /\ ~no_cut_mode
    /\ \A i \in DOMAIN calls : calls[i].outcome = "file"

\* C22: in a full-mode run in which every step succeeded,
\* check_srt_alignment.check_alignment has been called exactly once.
C22_AlignmentCheckedOnce ==
    AllStepsSucceeded
        => Cardinality(Steps({"check_srt_alignment.check_alignment"})) = 1

FatalSteps ==
    {"transcribe_to_srt.main", "audio_cleaner.process_srt_file",
     "convert_gemini_response_to_cut_format", "cut_mp4.process_video"}

OptionalSteps ==
    {"correct_srt_errors.process_srt_correction", "apply_cuts_to_srt.main",
     "generate_chapters.generate_chapters"}

Ended == pc \in {"returned", "exited"}

\* A call that did not hand back the path of an existing file (for Step 1: a
\* pair holding one).
Failed(c) == c.outcome # "file"

\* A failure that leaves the process running: an Exception, an empty result,
\* a missing file.
OrdinaryFailure(c) == c.outcome \in {"raise", "empty", "missing"}

\* Where main stands once an optional step is over.
NextAfter(step) ==
    CASE step = "correct_srt_errors.process_srt_correction" ->
             IF no_cut_mode THEN "step 7" ELSE "step 3"
      [] step = "apply_cuts_to_srt.main" -> "step 7"
      [] OTHER -> "summary"

FatalFailureEnds ==
    \A i \in Steps(FatalSteps) :
        Failed(calls[i]) => i = Len(calls) /\ Ended

SummaryIsLast ==
    pc = "complete" => calls[Len(calls)].step = "common_utils.get_total_gemini_cost"

\* C23 as stated: a failed transcription, analysis, conversion or cut is the
\* last call of a run that has ended; after any failure of transcription
\* correction, timestamp correction or chapter generation main stands at the
\* next step, and a completed run ends with the summary.
C23_FailureEndsOrNot ==
    /\ FatalFailureEnds
    /\ \A i \in Steps(OptionalSteps) :
          (Failed(calls[i]) /\ i = Len(calls)) => pc = NextAfter(calls[i].step)
    /\ SummaryIsLast

\* C23 amended: the same, for the failures of the optional steps that leave the
\* process running; an exit inside an optional step ends the run there.
C23_OrdinaryFailureEndsOrNot ==
    /\ FatalFailureEnds
    /\ \A i \in Steps(OptionalSteps) :
          /\ (OrdinaryFailure(calls[i]) /\ i = Len(calls))
                => pc = NextAfter(calls[i].step)
          /\ calls[i].outcome = "exit" => (i = Len(calls) /\ pc = "exited")
    /\ SummaryIsLast

\* A full-mode run that completed although each of the three optional steps
\* failed.
C23_Witness ==
    /\ pc = "complete"
    /\ ~no_cut_mode
    /\ \A step \in OptionalSteps :
          \E i \in Steps({step}) : OrdinaryFailure(calls[i])

CutSteps ==
    {"audio_cleaner.process_srt_file", "convert_gemini_response_to_cut_format",
     "cut_mp4.process_video", "apply_cuts_to_srt.main"}

Succeeded(step) == \E i \in Steps({step}) : calls[i].outcome = "file"

\* The transcription SRT: the one Step 2 wrote, else the one Step 1 wrote.
TranscriptionSrt ==
    IF Succeeded("correct_srt_errors.process_srt_correction")
    THEN "video_corrected_by_gemini.srt"
    ELSE "video.srt"

\* C24: in no-cut mode none of the steps 3 to 6 is called and, once Step 7 is
\* over, the chapter generator has been called on the transcription SRT; in
\* full mode it is called on the SRT Step 6 wrote when that file exists and on
\* the transcription SRT otherwise.
C24_ChaptersInput ==
    /\ no_cut_mode => Steps(CutSteps) = {}
    /\ (no_cut_mode /\ pc \in {"summary", "complete"})
          => \E i \in Steps({"generate_chapters.generate_chapters"}) :
                 calls[i].arg = TranscriptionSrt
    /\ ~no_cut_mode
          => \A i \in Steps({"generate_chapters.generate_chapters"}) :
                 calls[i].arg = IF Succeeded("apply_cuts_to_srt.main")
                                THEN "video_corrected.srt"
                                ELSE TranscriptionSrt

(***************************************************************************)
(* main_video_editor.py: convert_timestamp_format and                      *)
(* convert_gemini_response_to_cut_format.  The ranges file is modelled by  *)
(* the list handed to json.dump.                                           *)
(***************************************************************************)
\* f"{n:02d}": two digits at least, the sign counted in the width.
Fmt02(n) ==
    IF n >= 0 THEN ZeroPad(Digits(n), 2) ELSE <<"-">> \o Digits(0 - n)

\* lines 104-126: the timestamp of the fields between the colons.
format_parts(parts) ==
    IF Len(parts) = 2 THEN
        IF IsInt(parts[1]) /\ IsInt(parts[2])
        THEN Ok(<<"0", "0", ":">> \o Fmt02(IntOf(parts[1]))
                   \o <<":">> \o Fmt02(IntOf(parts[2])))
        ELSE ValueError
    ELSE IF Len(parts) = 3 THEN
        IF IsInt(parts[1]) /\ IsInt(parts[2]) /\ IsInt(parts[3])
        THEN Ok(Fmt02(IntOf(parts[1])) \o <<":">> \o Fmt02(IntOf(parts[2]))
                   \o <<":">> \o Fmt02(IntOf(parts[3])))
        ELSE ValueError
    ELSE ValueError

\* convert_timestamp_format of a JSON value; the fields are split off once.
convert_timestamp_format(v) ==
    IF v.kind # "str" \/ v.str = <<>> THEN ValueError
    ELSE LET s1 == IF Contains(v.str, ",") THEN Split(v.str, ",")[1] ELSE v.str
         IN  With(Split(Strip(s1), ":"), format_parts)

\* d[key], for a dict d that has the key.
member(d, key) ==
    d.items[CHOOSE a \in DOMAIN d.items : d.items[a].key = key].val

\* One pass of the loop body on range_item: "TypeError" when the item cannot
\* be subscripted with a text (it is no dict), "skip" on KeyError or
\* ValueError, else the range appended.
convert_item(range_item) ==
    IF range_item.kind # "dict" THEN [how |-> "TypeError", range |-> <<>>]
    ELSE IF ~HasKey(range_item, StartKey)
            \/ convert_timestamp_format(member(range_item, StartKey)).err
            \/ ~HasKey(range_item, EndKey)
            \/ convert_timestamp_format(member(range_item, EndKey)).err
    THEN [how |-> "skip", range |-> <<>>]
    ELSE [how |-> "append",
          range |-> [start |-> convert_timestamp_format(member(range_item, StartKey)).value,
                     end   |-> convert_timestamp_format(member(range_item, EndKey)).value]]

RECURSIVE convert_loop(_, _, _)
\* for range_item in ranges_to_delete, from item k on, with ranges = acc.
convert_loop(ranges_to_delete, k, acc) ==
    IF k > Len(ranges_to_delete) THEN [raised |-> FALSE, ranges |-> acc]
    ELSE LET c == convert_item(ranges_to_delete[k])
         IN  IF c.how = "TypeError" THEN [raised |-> TRUE, ranges |-> acc]
             ELSE convert_loop(ranges_to_delete, k + 1,
                               IF c.how = "append" THEN Append(acc, c.range) ELSE acc)

NotWritten == <<>>

\* lines 159-193: the function from the extracted json_data on.
convert_json_data(json_data) ==
        IF json_data.none \/ json_data.value.items = <<>>
           \/ ~HasKey(json_data.value, RangesKey)
        THEN [returned |-> "None", file |-> NotWritten]
        ELSE LET ranges_to_delete == member(json_data.value, RangesKey)
                 done == convert_loop(ranges_to_delete.items, 1, <<>>)
             IN  IF ranges_to_delete.kind # "list" \/ Len(ranges_to_delete.items) = 0
                 THEN [returned |-> "None", file |-> NotWritten]
                 ELSE IF done.raised
                 THEN [returned |-> "TypeError", file |-> NotWritten]
                 ELSE IF done.ranges = <<>>
                 THEN [returned |-> "None", file |-> NotWritten]
                 ELSE [returned |-> "path", file |-> <<done.ranges>>]

\* convert_gemini_response_to_cut_format on a response file that exists and
\* reads as text: what it returns or raises, and what it writes.  The JSON
\* data is extracted once and the rest works on that value.
convert_gemini_response_to_cut_format(text) ==
    With(extract_json_from_text(text), convert_json_data)

(***************************************************************************)
(* A run of convert_gemini_response_to_cut_format.                         *)
(***************************************************************************)
MaxRangeItems == 2

\* Texts of the items a response lists.
ItemTexts ==
    {\* an SRT timestamp pair
     <<"{", "\"", "s", "t", "a", "r", "t", "\"", ":", " ", "\"", "0", "0", ":", "0", "0", ":", "0", "1", ",", "0", "0", "0", "\"", ",", " ", "\"", "e", "n", "d", "\"", ":", " ", "\"", "0", "0", ":", "0", "0", ":", "0", "2", ",", "5", "0", "0", "\"", "}">>,
     \* MM:SS and H:M:S, with a reason
     <<"{", "\"", "s", "t", "a", "r", "t", "\"", ":", " ", "\"", "1", ":", "0", "5", "\"", ",", " ", "\"", "e", "n", "d", "\"", ":", " ", "\"", "2", ":", "3", ":", "4", "\"", ",", " ", "\"", "r", "e", "a", "s", "o", "n", "\"", ":", " ", "\"", "u", "m", "\"", "}">>,
     \* a start that is no timestamp
     <<"{", "\"", "s", "t", "a", "r", "t", "\"", ":", " ", "\"", "x", "\"", ",", " ", "\"", "e", "n", "d", "\"", ":", " ", "\"", "0", ":", "0", "2", "\"", "}">>,
     \* no end
     <<"{", "\"", "s", "t", "a", "r", "t", "\"", ":", " ", "\"", "0", ":", "0", "1", "\"", "}">>,
     \* a number as start
     <<"{", "\"", "s", "t", "a", "r", "t", "\"", ":", " ", "5", ",", " ", "\"", "e", "n", "d", "\"", ":", " ", "\"", "0", ":", "0", "2", "\"", "}">>,
     \* a field that is no number
     <<"{", "\"", "s", "t", "a", "r", "t", "\"", ":", " ", "\"", "0", ":", "0", "1", "\"", ",", " ", "\"", "e", "n", "d", "\"", ":", " ", "\"", "0", ":", "0", "a", "\"", "}">>,
     \* a negative field
     <<"{", "\"", "s", "t", "a", "r", "t", "\"", ":", " ", "\"", "-", "1", ":", "0", "5", "\"", ",", " ", "\"", "e", "n", "d", "\"", ":", " ", "\"", "0", ":", "0", "2", "\"", "}">>,
     \* an item that is a text, not an object
     <<"\"", "0", ":", "0", "1", "-", "0", ":", "0", "2", "\"">>}

\* Responses without a list of ranges.
OtherResponses ==
    {\* no JSON at all
     <<"n", "o", " ", "r", "a", "n", "g", "e", "s", " ", "f", "o", "u", "n", "d">>,
     \* an object without the key
     <<"{", "\"", "n", "o", "t", "e", "\"", ":", " ", "7", "}">>,
     \* the key with a text
     <<"{", "\"", "r", "a", "n", "g", "e", "s", "_", "t", "o", "_", "d", "e", "l", "e", "t", "e", "\"", ":", " ", "\"", "n", "o", "n", "e", "\"", "}">>,
     \* the key with a number
     <<"{", "\"", "r", "a", "n", "g", "e", "s", "_", "t", "o", "_", "d", "e", "l", "e", "t", "e", "\"", ":", " ", "0", "}">>,
     \* the key with an object
     <<"{", "\"", "r", "a", "n", "g", "e", "s", "_", "t", "o", "_", "d", "e", "l", "e", "t", "e", "\"", ":", " ", "{", "\"", "s", "t", "a", "r", "t", "\"", ":", " ", "\"", "0", ":", "0", "1", "\"", ",", " ", "\"", "e", "n", "d", "\"", ":", " ", "\"", "0", ":", "0", "2", "\"", "}", "}">>}

\* {"ranges_to_delete": [<items>]}
ListResponse(its) ==
    <<"{", "\"">> \o RangesKey \o <<"\"", ":", " ", "[">>
        \o JoinBlocks([i \in DOMAIN its |-> <<its[i]>>], <<",", " ">>)
        \o <<"]", "}">>

InitConvert ==
    /\ pc \in {"response file", "no response file"}
    /\ \/ gemini_text \in OtherResponses
       \/ \E n \in 0..MaxRangeItems : \E its \in [1..n -> ItemTexts] :
              gemini_text = ListResponse(its)
    /\ convert_returned = ""
    /\ ranges_file = NotWritten
    /\ OnlyConv

\* lines 139-141
ConvertMissing ==
    /\ pc = "no response file"
    /\ convert_returned' = "None"
    /\ pc' = "not found"
    /\ UNCHANGED <<gemini_text, ranges_file, notConv>>

\* lines 144-193
Convert ==
    /\ pc = "response file"
    /\ \E done \in {convert_gemini_response_to_cut_format(gemini_text)} :
          /\ convert_returned' = done.returned
          /\ ranges_file' = done.file
    /\ pc' = "converted"
    /\ UNCHANGED <<gemini_text, notConv>>

NextConvert == ConvertMissing \/ Convert

SpecConvert == InitConvert /\ [][NextConvert]_vars

(***************************************************************************)
(* Claims about convert_gemini_response_to_cut_format, checked under       *)
(* SpecConvert.                                                            *)
(***************************************************************************)
\* The items of the extracted ranges_to_delete list; none when the list is
\* absent or no list.
ListedItems ==
    LET json_data == extract_json_from_text(gemini_text)
    IN  IF json_data.none \/ ~HasKey(json_data.value, RangesKey) THEN <<>>
        ELSE IF member(json_data.value, RangesKey).kind # "list" THEN <<>>
        ELSE member(json_data.value, RangesKey).items

\* An item whose start and end both convert.
Convertible(item) ==
    /\ HasKey(item, StartKey) /\ ~convert_timestamp_format(member(item, StartKey)).err
    /\ HasKey(item, EndKey) /\ ~convert_timestamp_format(member(item, EndKey)).err

Converted(item) ==
    [start |-> convert_timestamp_format(member(item, StartKey)).value,
     end   |-> convert_timestamp_format(member(item, EndKey)).value]

RECURSIVE ConvertedItems(_)
\* The convertible ones among the items, converted, in their order.
ConvertedItems(its) ==
    IF its = <<>> THEN <<>>
    ELSE IF Convertible(Head(its))
    THEN <<Converted(Head(its))>> \o ConvertedItems(Tail(its))
    ELSE ConvertedItems(Tail(its))

\* HH:MM:SS
ShapedAsClock(s) ==
    /\ Len(s) = 8
    /\ \A i \in {1, 2, 4, 5, 7, 8} : IsDigit(s[i])
    /\ s[3] = ":" /\ s[6] = ":"

\* C25: a ranges file is written if and only if some listed item has a start
\* and an end that both convert; it then holds exactly the convertible items,
\* converted, in their order, each time in HH:MM:SS form, and its path is
\* returned; otherwise the call returns None.
C25_ConvertibleItemsWritten ==
    pc = "converted" =>
        /\ ranges_file # NotWritten <=> ConvertedItems(ListedItems) # <<>>
        /\ ranges_file # NotWritten =>
              /\ convert_returned = "path"
              /\ ranges_file[1] = ConvertedItems(ListedItems)
              /\ \A i \in DOMAIN ranges_file[1] :
                    /\ ShapedAsClock(ranges_file[1][i].start)
                    /\ ShapedAsClock(ranges_file[1][i].end)
        /\ ConvertedItems(ListedItems) = <<>> => convert_returned = "None"

(***************************************************************************)
(* correct_srt_errors.py: process_srt_correction, one action per batch of  *)
(* its loop.  A block is [index, start, end, text]; the index, the         *)
(* timestamps and the texts are never computed with there, so the index    *)
(* and the timestamps are numbers here and a text is one string.  What the *)
(* model answers for a batch is the list json.loads makes of its response: *)
(* items [id, text], or Malformed for an item without one of the two keys  *)
(* or no object at all.                                                    *)
(***************************************************************************)
BATCH_SIZE == 50

MaxAnswerItems == 2

Block(index, start, end, text) ==
    [index |-> index, start |-> start, end |-> end, text |-> text]

\* A parsed SRT of n blocks numbered from 1.
Blocks(n) == [i \in 1..n |-> Block(i, 2 * i, 2 * i + 1, "uh hello")]

\* The SRT files: empty, one batch, two batches (51 blocks), and one with an
\* index given twice.
BlockLists ==
    {Blocks(0), Blocks(1), Blocks(2), Blocks(BATCH_SIZE + 1),
     <<Block(1, 2, 3, "uh hello"), Block(1, 4, 5, "uh hello")>>}

\* batches = [original_blocks[i:i + BATCH_SIZE] for i in range(0, len, BATCH_SIZE)]
NumBatches(blocks) == (Len(blocks) + BATCH_SIZE - 1) \div BATCH_SIZE

\* The batch the block at place i belongs to.
BatchOf(i) == ((i - 1) \div BATCH_SIZE) + 1

Batch(blocks, b) ==
    SubSeq(blocks, (b - 1) * BATCH_SIZE + 1, min(b * BATCH_SIZE, Len(blocks)))

Malformed == [id |-> -1, text |-> "", keys |-> FALSE]

Answer(id, text) == [id |-> id, text |-> text, keys |-> TRUE]

\* The items an answer to batch b is made of: about the first and the last
\* block of the batch, about block 1 and about no block, with the text
\* corrected or left as it was.
AnswerItems(blocks, b) ==
    {Malformed} \cup
    {Answer(id, text) :
        id \in {Batch(blocks, b)[1].index,
                Batch(blocks, b)[Len(Batch(blocks, b))].index, 1, 0},
        text \in {"Hello.", "uh hello"}}

\* The ways a batch fails before an answer is read.
BatchErrors ==
    {"upload error", "processing failed", "status error", "generation error",
     "unparseable response"}

RECURSIVE collect(_, _, _)
\* for item in batch_corrected: corrected_map[item['id']] = item['text'],
\* from item k on; raised when an item has no such key.
collect(map, batch_corrected, k) ==
    IF k > Len(batch_corrected) THEN [raised |-> FALSE, map |-> map]
    ELSE IF ~batch_corrected[k].keys THEN [raised |-> TRUE, map |-> map]
    ELSE collect((batch_corrected[k].id :> batch_corrected[k].text) @@ map,
                 batch_corrected, k + 1)

\* The final pass over original_blocks.
apply_corrections(blocks, map) ==
    [i \in DOMAIN blocks |->
        IF blocks[i].index \in DOMAIN map
        THEN [blocks[i] EXCEPT !.text = map[blocks[i].index]]
        ELSE blocks[i]]

InitCorrect ==
    /\ pc = "correction"
    /\ original_blocks \in BlockLists
    /\ batch_no = 1
    /\ corrected_map = <<>>
    /\ failed_batches = {}
    /\ written_blocks = <<>>
    /\ OnlyCorr

\* lines 85-88: nothing to correct.
NoBlocks ==
    /\ pc = "correction"
    /\ original_blocks = <<>>
    /\ pc' = "returned None"
    /\ UNCHANGED <<corrVars, notCorr>>

\* lines 104-211, a batch that ends in one of the errors: the loop goes on
\* with the next batch.
BatchFails ==
    /\ pc = "correction"
    /\ batch_no <= NumBatches(original_blocks)
    /\ \E e \in BatchErrors : failed_batches' = failed_batches \cup {batch_no}
    /\ batch_no' = batch_no + 1
    /\ UNCHANGED <<pc, original_blocks, corrected_map, written_blocks, notCorr>>

\* lines 104-211, a batch whose response json.loads reads as a list: its
\* items are entered in corrected_map until one raises.
BatchAnswered ==
    /\ pc = "correction"
    /\ batch_no <= NumBatches(original_blocks)
    /\ \E n \in 0..MaxAnswerItems :
       \E batch_corrected \in [1..n -> AnswerItems(original_blocks, batch_no)] :
          LET c == collect(corrected_map, batch_corrected, 1)
          IN  /\ corrected_map' = c.map
              /\ failed_batches' = IF c.raised THEN failed_batches \cup {batch_no}
                                   ELSE failed_batches
    /\ batch_no' = batch_no + 1
    /\ UNCHANGED <<pc, original_blocks, written_blocks, notCorr>>

\* lines 213-241
SaveCorrected ==
    /\ pc = "correction"
    /\ original_blocks # <<>>
    /\ batch_no > NumBatches(original_blocks)
    /\ written_blocks' = apply_corrections(original_blocks, corrected_map)
    /\ pc' = "saved"
    /\ UNCHANGED <<original_blocks, batch_no, corrected_map, failed_batches, notCorr>>

NextCorrect == NoBlocks \/ BatchFails \/ BatchAnswered \/ SaveCorrected

SpecCorrect == InitCorrect /\ [][NextCorrect]_vars

(***************************************************************************)
(* Claims about process_srt_correction, checked under SpecCorrect.         *)
(***************************************************************************)
\* C26: the blocks written are as many as were parsed, in the same order,
\* each with its index and its timestamps, and a block of a failed batch is
\* written with the text it was parsed with.
C26_TextOnly ==
    pc = "saved" =>
        /\ Len(written_blocks) = Len(original_blocks)
        /\ \A i \in DOMAIN original_blocks :
              /\ written_blocks[i].index = original_blocks[i].index
              /\ written_blocks[i].start = original_blocks[i].start
              /\ written_blocks[i].end = original_blocks[i].end
              /\ BatchOf(i) \in failed_batches
                    => written_blocks[i].text = original_blocks[i].text

(***************************************************************************)
(* audio_cleaner.py: process_srt_file, the uploads it makes and the        *)
(* deletes it asks the Gemini client for.  An uploaded file is             *)
(* [name, state]; the client answers an upload or a files.get with the     *)
(* file in one of its three states, or raises.                             *)
(***************************************************************************)
FileStates == {"PROCESSING", "ACTIVE", "FAILED"}

\* The turns of a wait loop the runs go through.
MaxPolls == 2

\* polls counts the client.files.get calls made for the file.
Uploaded(name, state) == [name |-> name, state |-> state, polls |-> 0]

\* What is returned and where: <<value, place>>.
Returned_at(value, place) == <<value, place>>

\* client.files.delete(name=uploaded_file.name) in the error branches: the
\* function has no name uploaded_file (its files are uploaded_srt and
\* uploaded_audio), so evaluating the argument raises NameError, the bare
\* except passes, and the client is asked nothing.
delete_uploaded_file(requests) == requests

\* The cleanup of the success path: a delete asked for each file in
\* files_to_delete; answers tells which of them the client refused with an
\* error, which is printed and changes nothing else.
delete_files(requests, files_to_delete, answers) ==
    requests \o [k \in DOMAIN files_to_delete |->
                    [name |-> files_to_delete[k].name, answer |-> answers[k]]]

InitClean ==
    /\ pc = "upload srt"
    /\ uploaded = <<>>
    /\ delete_requests = <<>>
    /\ cleaner_returned = <<>>
    /\ OnlyClean

\* lines 36-61: the SRT is missing, the upload raises, or the file is up.
UploadSrt ==
    /\ pc = "upload srt"
    /\ \/ /\ cleaner_returned' = Returned_at("None", "upload")
          /\ pc' = "returned"
          /\ UNCHANGED uploaded
       \/ \E st \in FileStates :
          /\ uploaded' = <<Uploaded("srt", st)>>
          /\ pc' = "upload audio"
          /\ UNCHANGED cleaner_returned
    /\ UNCHANGED <<delete_requests, notClean>>

\* lines 64-88: no audio path, no such file or a failed upload leave the SRT
\* alone; else the audio is up as well.
UploadAudio ==
    /\ pc = "upload audio"
    /\ \/ UNCHANGED uploaded
       \/ \E st \in FileStates : uploaded' = Append(uploaded, Uploaded("audio", st))
    /\ pc' = "wait 1"
    /\ UNCHANGED <<delete_requests, cleaner_returned, notClean>>

\* The file the wait loop is at.
Waited == IF pc = "wait 1" THEN 1 ELSE 2

\* lines 98-100: one turn of the while loop, client.files.get answering.
Poll ==
    /\ pc \in {"wait 1", "wait 2"}
    /\ Waited <= Len(uploaded)
    /\ uploaded[Waited].state = "PROCESSING"
    /\ \E st \in IF uploaded[Waited].polls + 1 < MaxPolls
                  THEN FileStates ELSE FileStates \ {"PROCESSING"} :
          uploaded' = [uploaded EXCEPT ![Waited].state = st,
                                       ![Waited].polls = @ + 1]
    /\ UNCHANGED <<pc, delete_requests, cleaner_returned, notClean>>

\* lines 106-111: client.files.get raises.
PollRaises ==
    /\ pc \in {"wait 1", "wait 2"}
    /\ Waited <= Len(uploaded)
    /\ uploaded[Waited].state = "PROCESSING"
    /\ cleaner_returned' = Returned_at("None", "processing")
    /\ pc' = "returned"
    /\ UNCHANGED <<uploaded, delete_requests, notClean>>

\* lines 103-105: the file failed.
ProcessingFailed ==
    /\ pc \in {"wait 1", "wait 2"}
    /\ Waited <= Len(uploaded)
    /\ uploaded[Waited].state = "FAILED"
    /\ cleaner_returned' = Returned_at("None", "processing")
    /\ pc' = "returned"
    /\ UNCHANGED <<uploaded, delete_requests, notClean>>

\* The file is processed: on to the next file, or to the request.
Processed ==
    /\ pc \in {"wait 1", "wait 2"}
    /\ (Waited <= Len(uploaded) => uploaded[Waited].state = "ACTIVE")
    /\ pc' = IF pc = "wait 1" THEN "wait 2" ELSE "generate"
    /\ UNCHANGED <<uploaded, delete_requests, cleaner_returned, notClean>>

\* lines 164-209: generate_content raises, or the response has no text or an
\* empty one: the cleanup of the error branches, then None.
GenerationFails ==
    /\ pc = "generate"
    /\ \E place \in {"generation: ClientError", "generation: Exception",
                      "response text: none", "response text: empty"} :
          cleaner_returned' = Returned_at("None", place)
    /\ delete_requests' = delete_uploaded_file(delete_requests)
    /\ pc' = "returned"
    /\ UNCHANGED <<uploaded, notClean>>

\* lines 211-231: the response is saved, the uploads are deleted.
SaveResponse ==
    /\ pc = "generate"
    /\ \E answers \in [DOMAIN uploaded -> {"deleted", "error"}] :
          delete_requests' = delete_files(delete_requests, uploaded, answers)
    /\ cleaner_returned' = Returned_at("path", "success")
    /\ pc' = "returned"
    /\ UNCHANGED <<uploaded, notClean>>

NextClean ==
    \/ UploadSrt
    \/ UploadAudio
    \/ Poll
    \/ PollRaises
    \/ ProcessingFailed
    \/ Processed
    \/ GenerationFails
    \/ SaveResponse

SpecClean == InitClean /\ [][NextClean]_vars

(***************************************************************************)
(* Claims about process_srt_file, checked under SpecClean.                 *)
(***************************************************************************)
\* C27: once the function has returned after a successful upload, a delete
\* has been requested for each uploaded file.
C27_UploadsDeleted ==
    (pc = "returned" /\ uploaded # <<>>)
        => \A k \in DOMAIN uploaded :
              \E d \in DOMAIN delete_requests :
                  delete_requests[d].name = uploaded[k].name

(***************************************************************************)
(* transcribe_to_srt.py: process_segments and segments_to_srt.  A time is  *)
(* an exact fraction of a second [num, den] in lowest terms with den > 0;  *)
(* a segment is [start, end, text].  The inputs keep to times a float      *)
(* holds exactly (multiples of a quarter second), so that the float        *)
(* arithmetic of the code and the fractions of the model give the same     *)
(* values.                                                                 *)
(***************************************************************************)
RECURSIVE GCD(_, _)
GCD(a, b) == IF b = 0 THEN a ELSE GCD(b, a % b)

Rat(n, d) ==
    LET g == GCD(IF n < 0 THEN 0 - n ELSE n, d)
    IN  [num |-> n \div g, den |-> d \div g]

RatAdd(a, b) == Rat(a.num * b.den + b.num * a.den, a.den * b.den)
RatSub(a, b) == Rat(a.num * b.den - b.num * a.den, a.den * b.den)
RatMul(a, b) == Rat(a.num * b.num, a.den * b.den)
\* a / b, for b > 0
RatDiv(a, b) == Rat(a.num * b.den, a.den * b.num)
RatLE(a, b)  == a.num * b.den <= b.num * a.den
RatMin(a, b) == IF RatLE(a, b) THEN a ELSE b

\* math.ceil(q), for q >= 0
Ceil(q) == (q.num + q.den - 1) \div q.den

RECURSIVE SplitWords(_)
\* str.split(): the words between runs of whitespace.
SplitWords(s) ==
    LET b == LStrip(s)
    IN  IF b = <<>> THEN <<>>
        ELSE LET k == IF \E j \in DOMAIN b : IsSpace(b[j])
                      THEN CHOOSE j \in DOMAIN b :
                               IsSpace(b[j]) /\ \A h \in 1..(j - 1) : ~IsSpace(b[h])
                      ELSE Len(b) + 1
             IN  <<SubSeq(b, 1, k - 1)>> \o SplitWords(SubSeq(b, k, Len(b)))

Segment(seg_start, seg_end, text) == [start |-> seg_start, end |-> seg_end, text |-> text]

RECURSIVE split_chunks(_, _, _, _, _)
\* lines 82-88: for i in range(0, len(words), chunk_size), the chunk at i.
split_chunks(seg_start, dur, words, chunk_size, i) ==
    IF i >= Len(words) THEN <<>>
    ELSE LET chunk_words   == SubSeq(words, i + 1,
                                     IF i + chunk_size < Len(words)
                                     THEN i + chunk_size ELSE Len(words))
             rel_idx_start == Rat(i, Len(words))
             rel_idx_end   == RatMin(Rat(i + chunk_size, Len(words)), Rat(1, 1))
             cstart        == RatAdd(seg_start, RatMul(rel_idx_start, dur))
             cend          == RatAdd(seg_start, RatMul(rel_idx_end, dur))
         IN  <<Segment(cstart, cend, Join(chunk_words, " "))>>
                 \o split_chunks(seg_start, dur, words, chunk_size, i + chunk_size)

\* lines 65-88: what one raw segment adds to the list.
process_segment(seg, limit) ==
    LET text  == Strip(seg.text)
        dur   == RatSub(seg.end, seg.start)
        words == SplitWords(text)
    IN  IF RatLE(dur, limit) THEN <<Segment(seg.start, seg.end, text)>>
        ELSE IF Len(words) <= 1 THEN <<Segment(seg.start, seg.end, text)>>
        ELSE LET n_chunks   == Ceil(RatDiv(dur, limit))
                 chunk_size == Ceil(Rat(Len(words), n_chunks))
             IN  split_chunks(seg.start, dur, words, chunk_size, 0)

RECURSIVE process_segments(_, _)
process_segments(raw, limit) ==
    IF raw = <<>> THEN <<>>
    ELSE process_segment(Head(raw), limit) \o process_segments(Tail(raw), limit)

\* timedelta(seconds=x): x rounded to the microsecond, half to even.
Microseconds(x) ==
    LET scaled == x.num * 1000000
        q      == scaled \div x.den
        r2     == 2 * (scaled % x.den)
    IN  IF r2 > x.den \/ (r2 = x.den /\ q % 2 = 1) THEN q + 1 ELSE q

\* format_timestamp(seconds), seconds >= 0
format_timestamp(seconds) ==
    LET td            == Microseconds(seconds)
        total_seconds == td \div 1000000
        hours         == total_seconds \div 3600
        minutes       == (total_seconds % 3600) \div 60
        secs          == total_seconds % 60
        millis        == (td % 1000000) \div 1000
    IN  ZeroPad(Digits(hours), 2) \o <<":">> \o ZeroPad(Digits(minutes), 2)
            \o <<":">> \o ZeroPad(Digits(secs), 2) \o <<",">>
            \o ZeroPad(Digits(millis), 3)

\* str.replace("\n", " ")
NewlinesToSpaces(s) == [k \in DOMAIN s |-> IF s[k] = "\n" THEN " " ELSE s[k]]

RECURSIVE srt_lines(_, _)
\* lines 40-52: the loop of segments_to_srt from segment i on; i is the
\* number enumerate(segments, start=1) gives the segment.
srt_lines(segs, i) ==
    IF i > Len(segs) THEN <<>>
    ELSE LET seg  == segs[i]
             text == Strip(NewlinesToSpaces(Strip(seg.text)))
         IN  IF text = <<>> THEN srt_lines(segs, i + 1)
             ELSE <<Str(i),
                    format_timestamp(seg.start) \o <<" ", "-", "-", ">", " ">>
                        \o format_timestamp(seg.end),
                    text,
                    <<>> >> \o srt_lines(segs, i + 1)

\* segments_to_srt(segments): "\n".join(lines)
segments_to_srt(segs) == Join(srt_lines(segs, 1), "\n")

(***************************************************************************)
(* The inputs: up to MaxRawSegments segments one after the other from 0 s, *)
(* each with a duration in whole seconds and a text of 0, 1, 2 or 4 words. *)
(***************************************************************************)
MaxRawSegments == 2

SegmentDurations == {1, 3, 5, 7}

SegmentTexts ==
    { <<>>,
      <<" ">>,
      <<"a">>,
      <<"a", " ", "b">>,
      <<" ", "a", " ", " ", "b", "\n", "c", " ", "d", " ">> }

MaxDurations == {2, 3}

RECURSIVE RawSegments(_, _)
\* The segments with the given durations and texts, from time from on.
RawSegments(shape, from) ==
    IF shape = <<>> THEN <<>>
    ELSE <<Segment(Rat(from, 1), Rat(from + Head(shape)[1], 1), Head(shape)[2])>>
             \o RawSegments(Tail(shape), from + Head(shape)[1])

InitSeg ==
    /\ pc = "transcribed"
    /\ \E n \in 0..MaxRawSegments :
          \E shape \in [1..n -> SegmentDurations \X SegmentTexts] :
             raw_segments = RawSegments(shape, 0)
    /\ \E limit \in MaxDurations : max_dur = Rat(limit, 1)
    /\ segments = <<>>
    /\ srt_content = <<>>
    /\ OnlySeg

\* get_segments_from_file, line 189
ProcessSegments ==
    /\ pc = "transcribed"
    /\ segments' = process_segments(raw_segments, max_dur)
    /\ pc' = "segments"
    /\ UNCHANGED <<raw_segments, max_dur, srt_content, notSeg>>

\* main, line 405
SegmentsToSrt ==
    /\ pc = "segments"
    /\ srt_content' = segments_to_srt(segments)
    /\ pc' = "srt"
    /\ UNCHANGED <<raw_segments, max_dur, segments, notSeg>>

NextSeg ==
    \/ ProcessSegments
    \/ SegmentsToSrt

SpecSeg == InitSeg /\ [][NextSeg]_vars

(***************************************************************************)
(* Claims about process_segments and segments_to_srt, checked under        *)
(* SpecSeg.                                                                *)
(***************************************************************************)
RECURSIVE EmittedBefore(_)
\* How many segments the raw segments before the k-th have given.
EmittedBefore(k) ==
    IF k = 1 THEN 0
    ELSE EmittedBefore(k - 1) + Len(process_segment(raw_segments[k - 1], max_dur))

\* The segments of the list that come from the k-th raw segment.
EmittedFor(k) ==
    SubSeq(segments, EmittedBefore(k) + 1,
           EmittedBefore(k) + Len(process_segment(raw_segments[k], max_dur)))

RECURSIVE WordsOf(_)
\* The words of a list of segments, in order.
WordsOf(segs) ==
    IF segs = <<>> THEN <<>> ELSE SplitWords(Head(segs).text) \o WordsOf(Tail(segs))

DurationsWithin(em) ==
    \A j \in DOMAIN em : RatLE(RatSub(em[j].end, em[j].start), max_dur)

CoversRaw(em, seg) ==
    /\ em # <<>>
    /\ em[1].start = seg.start
    /\ em[Len(em)].end = seg.end
    /\ \A j \in 1..(Len(em) - 1) : em[j].end = em[j + 1].start

KeepsWords(em, seg) == WordsOf(em) = SplitWords(seg.text)

\* The parts of C28 apart from the durations.
ChunksCoverAndKeepWords ==
    pc \in {"segments", "srt"}
        => \A k \in DOMAIN raw_segments :
              Len(SplitWords(raw_segments[k].text)) > 1
                  => /\ CoversRaw(EmittedFor(k), raw_segments[k])
                     /\ KeepsWords(EmittedFor(k), raw_segments[k])

\* C28: once process_segments has returned, the segments emitted for a raw
\* segment of more than one word each last max_dur at most, are contiguous
\* from the raw start to the raw end, and hold the raw words in order, none
\* lost and none repeated.
C28_MaxDurationEnforced ==
    pc \in {"segments", "srt"}
        => \A k \in DOMAIN raw_segments :
              Len(SplitWords(raw_segments[k].text)) > 1
                  => /\ DurationsWithin(EmittedFor(k))
                     /\ CoversRaw(EmittedFor(k), raw_segments[k])
                     /\ KeepsWords(EmittedFor(k), raw_segments[k])

\* The lines of the SRT text and the number of its blocks: a block is an
\* index line, a timing line, a text line and a blank line.
SrtLines == Split(srt_content, "\n")

BlocksEmitted == Len(SrtLines) \div 4

\* C29: once segments_to_srt has returned, the k-th block of its text
\* carries the index k, for k from 1 to the number of blocks emitted.
C29_IndicesWithoutGap ==
    pc = "srt"
        => \A k \in 1..BlocksEmitted : SrtLines[4 * (k - 1) + 1] = Str(k)

(***************************************************************************)
(* main_video_editor.py, steps 5 and 6: one ranges file is handed to       *)
(* cut_mp4.process_video, which cuts the video, and then to the subtitle   *)
(* remap, which loads it with load_cuts and maps instants with map_time.   *)
(* The file holds HH:MM:SS texts, as convert_gemini_response_to_cut_format *)
(* writes them; the video works in seconds, the remap in milliseconds.     *)
(***************************************************************************)
\* time_to_seconds of a text whose fields are whole numbers: float(t_str),
\* or the fields between colons weighted.
time_text_to_seconds(t_str) ==
    LET s     == Strip(t_str)
        parts == Split(s, ":")
    IN  IF IsInt(s) THEN IntOf(s)
        ELSE IF Len(parts) = 3
             THEN IntOf(parts[1]) * 3600 + IntOf(parts[2]) * 60 + IntOf(parts[3])
        ELSE IF Len(parts) = 2 THEN IntOf(parts[1]) * 60 + IntOf(parts[2])
        ELSE 0

\* The items of the file with their times read by time_to_seconds.
items_in_seconds(d) ==
    [k \in DOMAIN d |-> [start |-> time_text_to_seconds(d[k]["start"]),
                         end   |-> time_text_to_seconds(d[k]["end"])]]

MaxFileRanges == 2

\* Seconds of the ranges: the start of the video, points inside it, and a
\* point beyond its end.
FileSeconds == {0, 2, 4, 6, 9}

FileDurations == {6, 8}

\* HH:MM:SS of a number of seconds below a minute.
ClockText(n) == <<"0", "0", ":", "0", "0", ":">> \o ZeroPad(Digits(n), 2)

\* Every range with start < end.
FileItems ==
    {[start |-> ClockText(ab[1]), end |-> ClockText(ab[2])] :
        ab \in {xy \in FileSeconds \X FileSeconds : xy[1] < xy[2]}}

\* The instants mapped: every half second of the video, its end included.
Instants(duration) == {500 * k : k \in 0..(2 * duration)}

InitAgree ==
    /\ pc = "ranges file"
    /\ \E n \in 1..MaxFileRanges : data \in [1..n -> FileItems]
    /\ initial_length \in FileDurations
    /\ mode = "remove"
    /\ intervals = <<>>
    /\ final_clips = <<>>
    /\ cuts = <<>>
    /\ MapIdle /\ ApplyIdle /\ CodecIdle
    /\ SrtIdle /\ AlignIdle /\ JsonIdle
    /\ LateIdle

\* Step 5: process_video in remove mode; with no clip left it returns None
\* and main returns.
CutVideoFromRanges ==
    /\ pc = "ranges file"
    /\ final_clips' = requested_clips(items_in_seconds(data), initial_length, mode)
    /\ pc' = IF final_clips' = <<>> THEN "no content" ELSE "video cut"
    /\ UNCHANGED <<data, intervals, initial_length, mode, cuts, mapVars, applyVars,
                   codecVars, srtVars, alignVars, jsonVars, lateVars>>

\* Step 6: the remap loads the same file.
LoadCutsFromRanges ==
    /\ pc = "video cut"
    /\ cuts' = load_cuts(data)
    /\ pc' = "cuts loaded"
    /\ UNCHANGED <<data, mapVars, applyVars, codecVars,
                   srtVars, alignVars, videoVars, jsonVars, lateVars>>

\* Step 6: map_time on one instant of the video.
MapInstant ==
    /\ pc = "cuts loaded"
    /\ \E tm \in Instants(initial_length) :
        /\ t' = tm
        /\ mapped' = map_time(tm, cuts)
    /\ pc' = "instant mapped"
    /\ UNCHANGED <<cuts, data, applyVars, codecVars,
                   srtVars, alignVars, videoVars, jsonVars, lateVars>>

NextAgree ==
    \/ CutVideoFromRanges
    \/ LoadCutsFromRanges
    \/ MapInstant

SpecAgree == InitAgree /\ [][NextAgree]_vars

(***************************************************************************)
(* Claims about the remap and the cut, checked under SpecAgree.            *)
(***************************************************************************)
\* The instant lies in none of the ranges of the file, a range holding its
\* start and not its end.
OutsideAllRanges(tm) ==
    \A k \in DOMAIN cuts : ~(cuts[k][1] <= tm /\ tm < cuts[k][2])

\* Milliseconds of the clip (in seconds) that lie before the instant.
ClipBefore(clip, tm) ==
    IF tm <= 1000 * clip[1] THEN 0
    ELSE IF tm >= 1000 * clip[2] THEN 1000 * (clip[2] - clip[1])
    ELSE tm - 1000 * clip[1]

\* The position of the instant in the concatenation of the kept clips.
PositionInKept(tm) ==
    SumOver([c \in DOMAIN final_clips |-> ClipBefore(final_clips[c], tm)],
            DOMAIN final_clips)

\* C30: an instant of the video outside all ranges is mapped to its position
\* in the concatenation of the kept clips, and the end of the video is
\* mapped to the total duration of the kept clips.
C30_RemapAgreesWithCut ==
    pc = "instant mapped"
        => /\ (OutsideAllRanges(t) => mapped[1] = PositionInKept(t))
           /\ (t = 1000 * initial_length => mapped[1] = PositionInKept(t))

\* The same for a file whose ranges are pairwise disjoint.
AgreesOnDisjointRanges ==
    (pc = "instant mapped" /\ SortedDisjoint(cuts)) => C30_RemapAgreesWithCut

=============================================================================
